---- MODULE Spec2Model ----
(***************************************************************************)
(* Skincare_BE: an Express + Mongoose REST backend.  A request enters a    *)
(* route, runs the route's middleware chain (auth, role gates, upload),    *)
(* reaches the controller handler, and the handler performs persistence    *)
(* operations on one collection per entity and writes a JSON response or   *)
(* forwards an AppError to the error responder.                            *)
(*                                                                         *)
(* Conventions for values                                                  *)
(*   identifiers (ObjectId)  1..n ; NoId = 0 is undefined ; BadId = -1 is  *)
(*                           a string that does not cast to an ObjectId    *)
(*   strings                 "" is undefined (an omitted body key); the    *)
(*                           handlers' !x tests and Mongoose's required    *)
(*                           validator treat "" and undefined alike        *)
(*   numbers                 NoNum = -1 is undefined ; 0 is a real value   *)
(*                           that JavaScript's !x treats as missing        *)
(***************************************************************************)
EXTENDS Integers, Sequences, FiniteSets, TLC

VARIABLES accounts, appointments, feedbacks, shifts, transactions,
          blogs, scorebands, therapists, userQuizzes,
          nextId, pending, res

vars == <<accounts, appointments, feedbacks, shifts, transactions,
          blogs, scorebands, therapists, userQuizzes,
          nextId, pending, res>>

(***************************************************************************)
(* Bounds                                                                  *)
(***************************************************************************)
\* documents ever created (ObjectIds are unique across collections and
\* never reused; nextId is the next one)
MaxId == 3
\* requests suspended at an await at the same time
MaxPending == 1

\* update requests that can be in flight at once
MaxUpdates == 2

(***************************************************************************)
(* Values                                                                  *)
(***************************************************************************)
NoId == 0
BadId == 0 - 1
NoNum == 0 - 1
NoDoc == [_id |-> NoId]
NoUser == [_id |-> NoId, role |-> ""]
NoBody == [none |-> TRUE]

Ids == 1..MaxId
\* values a route parameter such as :id can carry
ParamIds == Ids \cup {BadId}

\* RoleEnum
Roles == {"Customer", "Staff", "Admin", "Therapist"}
RoleAdmin == "Admin"
RoleCustomer == "Customer"

\* AppointmentStatusEnum
AppointmentStatuses == {"Scheduled", "In Progress", "Completed", "Cancelled"}

(***************************************************************************)
(* Express response object and next()                                      *)
(***************************************************************************)
NoResponse == [status |-> 0, key |-> "none", text |-> "", doc |-> NoDoc]

\* the body given to res.status(s).json(...): key is "error" or "message"
\* for {error: text} / {message: text}, "doc" for a document, "docs" for a
\* list, "null" for json(null)
Json(status, key, text, doc) ==
    [status |-> status, key |-> key, text |-> text, doc |-> doc]

\* ctx: what one request has done to res and next so far
\*   sent       the response the client receives (the first write)
\*   attempts   statuses of every res.status().json() call, in order
\*   forwarded  the errors given to next(err), in order
\*   threw      the last write threw ERR_HTTP_HEADERS_SENT
NewCtx == [sent |-> NoResponse, attempts |-> <<>>, forwarded |-> <<>>,
           threw |-> FALSE]

Write(ctx, status, key, text, doc) ==
    IF ctx.sent = NoResponse
    THEN [ctx EXCEPT !.sent = Json(status, key, text, doc),
                     !.attempts = Append(@, status),
                     !.threw = FALSE]
    ELSE [ctx EXCEPT !.attempts = Append(@, status), !.threw = TRUE]

\* next(new AppError(text, status))
Forward(ctx, status, text) ==
    [ctx EXCEPT !.forwarded = Append(@, [status |-> status, text |-> text])]

\* the centralized error responder: one JSON body {message} per forwarded
\* error, with the error's status code
RECURSIVE errorHandler(_, _)
errorHandler(ctx, i) ==
    IF i > Len(ctx.forwarded) THEN ctx
    ELSE errorHandler(Write(ctx, ctx.forwarded[i].status, "message",
                            ctx.forwarded[i].text, NoDoc), i + 1)

(***************************************************************************)
(* Mongoose                                                                *)
(***************************************************************************)
Find(coll, id) == {d \in coll : d._id = id}

\* Model.findById(id): a CastError for a malformed id, null (NoDoc) when
\* no document matches (also for findById(undefined))
findById(coll, id) ==
    IF id = BadId THEN [threw |-> TRUE, doc |-> NoDoc]
    ELSE IF Find(coll, id) = {} THEN [threw |-> FALSE, doc |-> NoDoc]
    ELSE [threw |-> FALSE, doc |-> CHOOSE d \in Find(coll, id) : TRUE]

Found(q) == ~q.threw /\ q.doc._id # NoId

\* the collection after findByIdAndDelete(id)
Removed(coll, id) == {d \in coll : d._id # id}

\* the collection after a document with this _id is replaced
Replaced(coll, doc) == Removed(coll, doc._id) \cup {doc}

(***************************************************************************)
(* Tokens and jsonwebtoken                                                 *)
(***************************************************************************)
\* kind "none": the request has no jwt cookie
TokenKinds == {"none", "valid", "expired", "invalid", "other"}

NoToken == [kind |-> "none", _id |-> NoId, role |-> ""]

\* identities for which a signed token is in circulation
Identities == {[_id |-> 1, role |-> "Admin"],
               [_id |-> 2, role |-> "Customer"],
               [_id |-> 2, role |-> "Staff"]}

Tokens == {NoToken}
          \cup {[kind |-> k, _id |-> i._id, role |-> i.role] :
                    k \in {"valid"}, i \in Identities}
          \cup {[kind |-> k, _id |-> 1, role |-> "Admin"] :
                    k \in {"expired", "invalid", "other"}}

\* jwt.verify: the decoded payload, or the classes the thrown error is an
\* instance of (TokenExpiredError extends JsonWebTokenError)
verify(token) ==
    CASE token.kind = "valid" ->
            [ok |-> TRUE, payload |-> [_id |-> token._id, role |-> token.role],
             classes |-> {}]
      [] token.kind = "expired" ->
            [ok |-> FALSE, payload |-> NoUser,
             classes |-> {"TokenExpiredError", "JsonWebTokenError", "Error"}]
      [] token.kind = "invalid" ->
            [ok |-> FALSE, payload |-> NoUser,
             classes |-> {"JsonWebTokenError", "Error"}]
      [] OTHER ->
            [ok |-> FALSE, payload |-> NoUser, classes |-> {"Error"}]

(***************************************************************************)
(* Middleware.  rq is the request as the chain has shaped it so far:       *)
(* token and file are inputs, user is req.user, nexts counts the next()    *)
(* calls made without an error, ctx is the response side.                  *)
(***************************************************************************)
\* a file of a multipart request: its original name, and the extension
\* path.extname gives for the name and the declared content type, each as
\* the sequence of the pieces of its text (".png" is <<".", "png">>,
\* "image/png" is <<"image/", "png">>)
NoFile == [name |-> "", ext |-> <<>>, mime |-> <<>>]

NewRequest(token, file) ==
    [token |-> token, upload |-> file, file |-> NoFile, user |-> NoUser,
     nexts |-> 0, ctx |-> NewCtx, trace |-> <<>>]

\* auth with the JsonWebTokenError test before the TokenExpiredError test
\* (TokenExpiredError is a JsonWebTokenError)
authSwappedChecks(rq) ==
    IF rq.token.kind = "none"
    THEN [rq EXCEPT !.ctx = Write(@, 401, "error", "Authentication required", NoDoc)]
    ELSE LET v == verify(rq.token) IN
         IF v.ok
         THEN [rq EXCEPT !.user = v.payload, !.nexts = @ + 1]
         ELSE IF "JsonWebTokenError" \in v.classes
         THEN [rq EXCEPT !.ctx = Write(@, 401, "error", "Invalid token", NoDoc)]
         ELSE IF "TokenExpiredError" \in v.classes
         THEN [rq EXCEPT !.ctx = Write(@, 401, "error", "Token expired", NoDoc)]
         ELSE [rq EXCEPT !.ctx = Write(@, 500, "error", "Authentication error", NoDoc)]

\* auth without the test for a missing cookie
authNoTokenPasses(rq) ==
    IF rq.token.kind = "none"
    THEN [rq EXCEPT !.nexts = @ + 1]
    ELSE LET v == verify(rq.token) IN
         IF v.ok
         THEN [rq EXCEPT !.user = v.payload, !.nexts = @ + 1]
         ELSE IF "TokenExpiredError" \in v.classes
         THEN [rq EXCEPT !.ctx = Write(@, 401, "error", "Token expired", NoDoc)]
         ELSE IF "JsonWebTokenError" \in v.classes
         THEN [rq EXCEPT !.ctx = Write(@, 401, "error", "Invalid token", NoDoc)]
         ELSE [rq EXCEPT !.ctx = Write(@, 500, "error", "Authentication error", NoDoc)]

auth(rq) ==
    IF rq.token.kind = "none"
    THEN [rq EXCEPT !.ctx = Write(@, 401, "error", "Authentication required", NoDoc)]
    ELSE LET v == verify(rq.token) IN
         IF v.ok
         THEN [rq EXCEPT !.user = v.payload, !.nexts = @ + 1]
         ELSE IF "TokenExpiredError" \in v.classes
         THEN [rq EXCEPT !.ctx = Write(@, 401, "error", "Token expired", NoDoc)]
         ELSE IF "JsonWebTokenError" \in v.classes
         THEN [rq EXCEPT !.ctx = Write(@, 401, "error", "Invalid token", NoDoc)]
         ELSE [rq EXCEPT !.ctx = Write(@, 500, "error", "Authentication error", NoDoc)]

\* isAdmin without the test of the role
isAdminAnyRole(rq) ==
    IF rq.user = NoUser
    THEN [rq EXCEPT !.ctx = Write(@, 500, "error",
                "Authentication middleware must run before isAdmin", NoDoc)]
    ELSE [rq EXCEPT !.nexts = @ + 1]

isAdmin(rq) ==
    IF rq.user = NoUser
    THEN [rq EXCEPT !.ctx = Write(@, 500, "error",
                "Authentication middleware must run before isAdmin", NoDoc)]
    ELSE IF rq.user.role # RoleAdmin
    THEN [rq EXCEPT !.ctx = Write(@, 403, "error", "Admin access required", NoDoc)]
    ELSE [rq EXCEPT !.nexts = @ + 1]

\* role gate "is Staff or Admin"
isStaffOrAdmin(rq) ==
    IF rq.user = NoUser
    THEN [rq EXCEPT !.ctx = Write(@, 500, "error",
                "Authentication middleware must run before isStaffOrAdmin", NoDoc)]
    ELSE IF rq.user.role \notin {"Staff", "Admin"}
    THEN [rq EXCEPT !.ctx = Write(@, 403, "error", "Staff or Admin access required", NoDoc)]
    ELSE [rq EXCEPT !.nexts = @ + 1]

\* state gate: the identity's account must exist and be active
checkActive(rq) ==
    IF rq.user = NoUser
    THEN [rq EXCEPT !.ctx = Write(@, 500, "error",
                "Authentication middleware must run before checkActive", NoDoc)]
    ELSE LET q == findById(accounts, rq.user._id) IN
         IF ~Found(q) \/ ~q.doc.isActive
         THEN [rq EXCEPT !.ctx = Write(@, 403, "error", "Account is not active", NoDoc)]
         ELSE [rq EXCEPT !.nexts = @ + 1]

ImageTypes == {"jpeg", "jpg", "png"}

\* String.toLowerCase, piece by piece
toLowerCase(text) ==
    [i \in 1..Len(text) |->
        CASE text[i] = "PNG" -> "png"
          [] text[i] = "JPG" -> "jpg"
          [] text[i] = "JPEG" -> "jpeg"
          [] OTHER -> text[i]]

\* /jpeg|jpg|png/.test(text): the pattern is not anchored, so it matches
\* when one of the three words occurs anywhere in the text
test(text) == \E i \in 1..Len(text) : text[i] \in ImageTypes

\* multer .single("image") with the fileFilter: a request without a file
\* passes; an accepted file is stored and exposed as req.file
uploadMiddleware(rq) ==
    IF rq.upload = NoFile
    THEN [rq EXCEPT !.nexts = @ + 1]
    ELSE IF test(toLowerCase(rq.upload.ext)) /\ test(rq.upload.mime)
    THEN [rq EXCEPT !.file = rq.upload, !.nexts = @ + 1]
    ELSE [rq EXCEPT !.ctx = Forward(@, 500, "Only accept image file (jpeg, jpg, png)")]

Middleware(name, rq) ==
    CASE name = "auth" -> auth(rq)
      [] name = "isAdmin" -> isAdmin(rq)
      [] name = "isStaffOrAdmin" -> isStaffOrAdmin(rq)
      [] name = "checkActive" -> checkActive(rq)
      [] name = "uploadMiddleware" -> uploadMiddleware(rq)

\* Express runs the chain in order; a middleware that does not call next()
\* ends it
\* trace keeps, per middleware that ran, what it did: how often it called
\* next(), the response it wrote (NoResponse if none), the errors it
\* forwarded and req.user as it left it
Ran(name, rq, r) ==
    [r EXCEPT !.trace = Append(@, [mw |-> name,
                                   nexts |-> r.nexts - rq.nexts,
                                   sent |-> r.ctx.sent,
                                   forwarded |-> r.ctx.forwarded,
                                   user |-> r.user])]

RECURSIVE RunChain(_, _, _)
RunChain(chain, rq, i) ==
    IF i > Len(chain) THEN rq
    ELSE LET r == Ran(chain[i], rq, Middleware(chain[i], rq)) IN
         IF r.nexts = rq.nexts + 1 THEN RunChain(chain, r, i + 1) ELSE r

\* a route table in which DELETE /account/:id runs isAdmin before auth
ChainAdminFirst(route) ==
    CASE route = "GET /account/:id" -> <<"auth">>
      [] route = "DELETE /account/:id" -> <<"isAdmin", "auth">>
      [] route = "PUT /account/:id" -> <<"auth">>
      [] route = "POST /account/changePassword" -> <<"auth">>
      [] route = "POST /appointment" -> <<"auth", "checkActive">>
      [] route = "POST /feedback" -> <<"auth", "checkActive", "uploadMiddleware">>
      [] route = "POST /shifts" -> <<"auth", "checkActive", "isStaffOrAdmin">>
      [] route = "DELETE /shifts/:shiftId" -> <<"auth", "checkActive", "isStaffOrAdmin">>
      [] route = "PUT /shifts/:shiftId" -> <<"auth", "checkActive", "isStaffOrAdmin">>
      [] route = "POST /transaction" -> <<"auth", "checkActive">>
      [] OTHER -> <<>>

\* the route table: the middleware in front of each gated handler
Chain(route) ==
    CASE route = "GET /account/:id" -> <<"auth">>
      [] route = "DELETE /account/:id" -> <<"auth", "isAdmin">>
      [] route = "PUT /account/:id" -> <<"auth">>
      [] route = "POST /account/changePassword" -> <<"auth">>
      [] route = "POST /appointment" -> <<"auth", "checkActive">>
      [] route = "POST /feedback" -> <<"auth", "checkActive", "uploadMiddleware">>
      [] route = "POST /shifts" -> <<"auth", "checkActive", "isStaffOrAdmin">>
      [] route = "DELETE /shifts/:shiftId" -> <<"auth", "checkActive", "isStaffOrAdmin">>
      [] route = "PUT /shifts/:shiftId" -> <<"auth", "checkActive", "isStaffOrAdmin">>
      [] route = "POST /transaction" -> <<"auth", "checkActive">>
      [] OTHER -> <<>>

GatedRoutes == {"GET /account/:id", "DELETE /account/:id", "PUT /account/:id",
                "POST /account/changePassword", "POST /appointment",
                "POST /feedback", "POST /shifts", "DELETE /shifts/:shiftId",
                "PUT /shifts/:shiftId", "POST /transaction"}

Enter(route, token, file) == RunChain(Chain(route), NewRequest(token, file), 1)

Reached(route, rq) == rq.nexts = Len(Chain(route))

(***************************************************************************)
(* Requests and responses as the model records them.  res is the last      *)
(* completed request: its inputs, what the chain and the handler did to    *)
(* the response, and whether the controller handler was invoked.           *)
(***************************************************************************)
Respond(route, op, rq, handler, id, body, ctx) ==
    LET c == errorHandler(ctx, 1) IN
    [route |-> route, op |-> op, token |-> rq.token, user |-> rq.user,
     nexts |-> rq.nexts, trace |-> rq.trace, handler |-> handler,
     id |-> id, body |-> body,
     sent |-> c.sent, attempts |-> c.attempts, forwarded |-> ctx.forwarded,
     unhandled |-> ctx.threw,
     file |-> rq.file, upload |-> rq.upload,
     \* what a two-step handler held across its await
     files |-> [present |-> FALSE, checkInImage |-> "", checkOutImage |-> ""],
     read |-> NoDoc]

NoRequest == Respond("", "", NewRequest(NoToken, NoFile), FALSE, NoId, NoBody, NewCtx)

\* a request on a route with no middleware in front of its handler
Direct == NewRequest(NoToken, NoFile)

\* req.body: a record holding the keys the client sent
Has(b, f) == f \in DOMAIN b
Str(b, f) == IF Has(b, f) THEN b[f] ELSE ""
IdOf(b, f) == IF Has(b, f) THEN b[f] ELSE NoId
Num(b, f) == IF Has(b, f) THEN b[f] ELSE NoNum
\* !req.body.f for a string, an identifier, a number
NotStr(b, f) == Str(b, f) = ""
NotId(b, f) == IdOf(b, f) = NoId
NotNum(b, f) == Num(b, f) = NoNum \/ Num(b, f) = 0

Restrict(b, S) == [f \in S |-> b[f]]
Without(b, f) == Restrict(b, DOMAIN b \ {f})
\* the bodies made of some of the keys of a complete body
Partial(full) == UNION {{Restrict(b, S) : S \in SUBSET DOMAIN b} : b \in full}
\* the bodies that lack at most one key of a complete body
LackingOne(full) == full \cup UNION {{Without(b, f) : f \in DOMAIN b} : b \in full}

\* findByIdAndUpdate(id, body): $set of the body's keys the schema knows
ApplyPatch(doc, b) ==
    [f \in DOMAIN doc |-> IF f \in DOMAIN b /\ f # "_id" THEN b[f] ELSE doc[f]]

\* the request was turned away by the middleware chain
Rejected(route, op, rq, id, body) ==
    /\ res' = Respond(route, op, rq, FALSE, id, body, rq.ctx)
    /\ UNCHANGED <<accounts, appointments, feedbacks, shifts, transactions,
                   blogs, scorebands, therapists, userQuizzes, nextId, pending>>

(***************************************************************************)
(* Account                                                                 *)
(***************************************************************************)
\* an Account that takes isActive from the body when the body has it
AccountDocTrustsBody(id, body) ==
    [_id |-> id,
     username |-> Str(body, "username"),
     password |-> Str(body, "password"),
     email |-> Str(body, "email"),
     role |-> IF Has(body, "role") THEN body.role ELSE RoleCustomer,
     dob |-> Str(body, "dob"),
     isActive |-> IF Has(body, "isActive") THEN body.isActive ELSE TRUE]

AccountDoc(id, body) ==
    [_id |-> id,
     username |-> Str(body, "username"),
     password |-> Str(body, "password"),
     email |-> Str(body, "email"),
     role |-> IF Has(body, "role") THEN body.role ELSE RoleCustomer,
     dob |-> Str(body, "dob"),
     isActive |-> TRUE]

\* AccountSchema validation and the unique indexes on username and email
AccountValid(d) ==
    /\ d.username # "" /\ d.password # "" /\ d.email # "" /\ d.dob # ""
    /\ d.role \in Roles
    /\ \A e \in accounts : e._id # d._id => e.username # d.username /\ e.email # d.email

getAccount(route, rq, id) ==
    LET q == findById(accounts, id)
        c == IF q.threw THEN Forward(rq.ctx, 500, "Internal Server Error")
             ELSE IF ~Found(q) THEN Forward(rq.ctx, 404, "Account not found")
             ELSE Write(rq.ctx, 200, "doc", "", q.doc)
    IN /\ res' = Respond(route, "getAccount", rq, TRUE, id, NoBody, c)
       /\ UNCHANGED <<accounts, appointments, feedbacks, shifts, transactions,
                      blogs, scorebands, therapists, userQuizzes, nextId, pending>>

createAccount(route, rq, body) ==
    LET doc == AccountDoc(nextId, body)
        bad == NotStr(body, "username") \/ NotStr(body, "password")
               \/ NotStr(body, "email") \/ NotStr(body, "dob")
        ok == ~bad /\ AccountValid(doc)
        c == IF bad THEN Forward(rq.ctx, 400, "Bad request")
             ELSE IF ok THEN Write(rq.ctx, 200, "doc", "", doc)
             ELSE Forward(rq.ctx, 500, "Internal Server Error")
    IN /\ ok => nextId <= MaxId
       /\ accounts' = IF ok THEN accounts \cup {doc} ELSE accounts
       /\ nextId' = IF ok THEN nextId + 1 ELSE nextId
       /\ res' = Respond(route, "createAccount", rq, TRUE, NoId, body, c)
       /\ UNCHANGED <<appointments, feedbacks, shifts, transactions,
                      blogs, scorebands, therapists, userQuizzes, pending>>

deleteAccount(route, rq, id) ==
    LET q == findById(accounts, id)
        c == IF q.threw THEN Forward(rq.ctx, 500, "Internal Server Error")
             ELSE IF ~Found(q) THEN Forward(rq.ctx, 404, "Account not found")
             ELSE Write(rq.ctx, 200, "doc", "", q.doc)
    IN /\ accounts' = IF Found(q) THEN Removed(accounts, id) ELSE accounts
       /\ res' = Respond(route, "deleteAccount", rq, TRUE, id, NoBody, c)
       /\ UNCHANGED <<appointments, feedbacks, shifts, transactions,
                      blogs, scorebands, therapists, userQuizzes, nextId, pending>>

\* findByIdAndUpdate without {new: true}: the answer carries the document
\* as it was before the update; a duplicate username or email is rejected
\* by the unique index
updateAccount(route, rq, id, body) ==
    LET q == findById(accounts, id)
        new == ApplyPatch(q.doc, body)
        dup == Found(q) /\ \E e \in accounts :
                   e._id # id /\ (e.username = new.username \/ e.email = new.email)
        c == IF q.threw \/ dup THEN Forward(rq.ctx, 500, "Internal Server Error")
             ELSE IF ~Found(q) THEN Forward(rq.ctx, 404, "Account not found")
             ELSE Write(rq.ctx, 200, "doc", "", q.doc)
    IN /\ accounts' = IF Found(q) /\ ~dup THEN Replaced(accounts, new) ELSE accounts
       /\ res' = Respond(route, "updateAccount", rq, TRUE, id, body, c)
       /\ UNCHANGED <<appointments, feedbacks, shifts, transactions,
                      blogs, scorebands, therapists, userQuizzes, nextId, pending>>

\* a list response carries the documents found
ListDoc(docs) == [_id |-> NoId, docs |-> docs]

getAllAccounts(route, rq) ==
    LET c == IF accounts = {} THEN Forward(rq.ctx, 404, "No accounts found")
             ELSE Write(rq.ctx, 200, "docs", "", ListDoc(accounts))
    IN /\ res' = Respond(route, "getAllAccounts", rq, TRUE, NoId, NoBody, c)
       /\ UNCHANGED <<accounts, appointments, feedbacks, shifts, transactions,
                      blogs, scorebands, therapists, userQuizzes, nextId, pending>>

\* POST /account/changePassword: replaces the password of the identity's
\* account
changePassword(route, rq, body) ==
    LET q == findById(accounts, rq.user._id)
        bad == NotStr(body, "newPassword")
        c == IF bad THEN Forward(rq.ctx, 400, "Bad request")
             ELSE IF ~Found(q) THEN Forward(rq.ctx, 404, "Account not found")
             ELSE Write(rq.ctx, 200, "message", "Password changed successfully", NoDoc)
    IN /\ accounts' = IF ~bad /\ Found(q)
                      THEN Replaced(accounts, [q.doc EXCEPT !.password = body.newPassword])
                      ELSE accounts
       /\ res' = Respond(route, "changePassword", rq, TRUE, NoId, body, c)
       /\ UNCHANGED <<appointments, feedbacks, shifts, transactions,
                      blogs, scorebands, therapists, userQuizzes, nextId, pending>>

(***************************************************************************)
(* Shifts                                                                  *)
(***************************************************************************)
ShiftDoc(id, body) ==
    [_id |-> id,
     slotsId |-> IdOf(body, "slotsId"),
     appointmentId |-> IdOf(body, "appointmentId"),
     therapistId |-> IdOf(body, "therapistId"),
     date |-> Str(body, "date"),
     isAvailable |-> IF Has(body, "isAvailable") THEN body.isAvailable ELSE TRUE]

createShift(route, rq, body) ==
    LET doc == ShiftDoc(nextId, body)
        bad == NotId(body, "slotsId") \/ NotId(body, "appointmentId")
               \/ NotId(body, "therapistId") \/ NotStr(body, "date")
        c == IF bad THEN Write(rq.ctx, 400, "message", "Bad request: Missing required fields", NoDoc)
             ELSE Write(rq.ctx, 201, "message", "Shift created successfully", doc)
    IN /\ ~bad => nextId <= MaxId
       /\ shifts' = IF bad THEN shifts ELSE shifts \cup {doc}
       /\ nextId' = IF bad THEN nextId ELSE nextId + 1
       /\ res' = Respond(route, "createShift", rq, TRUE, NoId, body, c)
       /\ UNCHANGED <<accounts, appointments, feedbacks, transactions,
                      blogs, scorebands, therapists, userQuizzes, pending>>

updateShift(route, rq, id, body) ==
    LET q == findById(shifts, id)
        new == ApplyPatch(q.doc, body)
        c == IF q.threw THEN Write(rq.ctx, 500, "message", "Internal Server Error", NoDoc)
             ELSE IF ~Found(q) THEN Write(rq.ctx, 404, "message", "Shift not found", NoDoc)
             ELSE Write(rq.ctx, 200, "message", "Shift updated successfully", new)
    IN /\ shifts' = IF Found(q) THEN Replaced(shifts, new) ELSE shifts
       /\ res' = Respond(route, "updateShift", rq, TRUE, id, body, c)
       /\ UNCHANGED <<accounts, appointments, feedbacks, transactions,
                      blogs, scorebands, therapists, userQuizzes, nextId, pending>>

deleteShift(route, rq, id) ==
    LET q == findById(shifts, id)
        c == IF q.threw THEN Write(rq.ctx, 500, "message", "Internal Server Error", NoDoc)
             ELSE IF ~Found(q) THEN Write(rq.ctx, 404, "message", "Shift not found", NoDoc)
             ELSE Write(rq.ctx, 200, "message", "Shift deleted successfully", NoDoc)
    IN /\ shifts' = IF Found(q) THEN Removed(shifts, id) ELSE shifts
       /\ res' = Respond(route, "deleteShift", rq, TRUE, id, NoBody, c)
       /\ UNCHANGED <<accounts, appointments, feedbacks, transactions,
                      blogs, scorebands, therapists, userQuizzes, nextId, pending>>

(***************************************************************************)
(* Transaction                                                             *)
(***************************************************************************)
validStatuses == {"pending", "completed", "failed"}

\* PaymentMethodEnum
PaymentMethods == {"Cash", "Credit Card"}

\* new Transaction(req.body): the keys the schema declares
TransactionDoc(id, body) ==
    [_id |-> id,
     customerId |-> IdOf(body, "customerId"),
     appointmentId |-> IdOf(body, "appointmentId"),
     paymentMethod |-> Str(body, "paymentMethod"),
     status |-> Str(body, "status")]

TransactionValid(d) ==
    /\ d.customerId # NoId /\ d.appointmentId # NoId
    /\ d.paymentMethod \in PaymentMethods
    /\ d.status # ""

getTransaction(route, rq, id) ==
    LET q == findById(transactions, id)
        c == IF q.threw THEN Forward(rq.ctx, 500, "Internal Server Error")
             ELSE IF ~Found(q) THEN Forward(rq.ctx, 404, "Transaction not found")
             ELSE Write(rq.ctx, 200, "doc", "", q.doc)
    IN /\ res' = Respond(route, "getTransaction", rq, TRUE, id, NoBody, c)
       /\ UNCHANGED <<accounts, appointments, feedbacks, shifts, transactions,
                      blogs, scorebands, therapists, userQuizzes, nextId, pending>>

\* the route runs no validation chain, so validationResult(req) is empty
createTransaction(route, rq, body) ==
    LET doc == TransactionDoc(nextId, body)
        bad == Str(body, "status") \notin validStatuses
        ok == ~bad /\ TransactionValid(doc)
        c == IF bad THEN Forward(rq.ctx, 400, "Invalid status. Allowed values: pending, completed, failed")
             ELSE IF ok THEN Write(rq.ctx, 201, "message", "Transaction created successfully", doc)
             ELSE Forward(rq.ctx, 500, "Failed to create transaction")
    IN /\ ok => nextId <= MaxId
       /\ transactions' = IF ok THEN transactions \cup {doc} ELSE transactions
       /\ nextId' = IF ok THEN nextId + 1 ELSE nextId
       /\ res' = Respond(route, "createTransaction", rq, TRUE, NoId, body, c)
       /\ UNCHANGED <<accounts, appointments, feedbacks, shifts,
                      blogs, scorebands, therapists, userQuizzes, pending>>

\* updateTransaction up to its await: the route runs no validation chain,
\* so validationResult(req) is empty, and findByIdAndUpdate is issued.  read
\* is the transaction as stored at that moment; the handler reads nothing,
\* it is kept for the properties
updateTransaction(route, rq, id, body) ==
    /\ Cardinality(pending) < MaxUpdates
    /\ pending' = pending \cup
           {[op |-> "updateTransaction", route |-> route, rq |-> rq,
             id |-> id, body |-> body, read |-> (findById(transactions, id)).doc]}
    /\ UNCHANGED <<accounts, appointments, feedbacks, shifts, transactions,
                   blogs, scorebands, therapists, userQuizzes, nextId, res>>

\* a write that puts back the transaction as it was when the request was
\* issued, with the body's fields changed
updateTransactionReadModifyWrite(p) ==
    LET q == findById(transactions, p.id)
        new == ApplyPatch(p.read, p.body)
        c == IF q.threw THEN Forward(p.rq.ctx, 500, "Failed to update transaction")
             ELSE IF ~Found(q) THEN Forward(p.rq.ctx, 404, "Transaction not found")
             ELSE Write(p.rq.ctx, 200, "message", "Transaction updated successfully", new)
    IN /\ p \in pending /\ p.op = "updateTransaction"
       /\ pending' = pending \ {p}
       /\ transactions' = IF Found(q) THEN Replaced(transactions, new) ELSE transactions
       /\ res' = [Respond(p.route, "updateTransaction", p.rq, TRUE, p.id, p.body, c)
                    EXCEPT !.read = p.read]
       /\ UNCHANGED <<accounts, appointments, feedbacks, shifts,
                      blogs, scorebands, therapists, userQuizzes, nextId>>

\* updateTransaction from the await on: the store applies findByIdAndUpdate
\* in one step, setting the body's fields on the transaction as it is then
\* ({new: true}: the updated transaction is what the 200 carries); no
\* runValidators, no version check
updateTransactionWrite(p) ==
    LET q == findById(transactions, p.id)
        new == ApplyPatch(q.doc, p.body)
        c == IF q.threw THEN Forward(p.rq.ctx, 500, "Failed to update transaction")
             ELSE IF ~Found(q) THEN Forward(p.rq.ctx, 404, "Transaction not found")
             ELSE Write(p.rq.ctx, 200, "message", "Transaction updated successfully", new)
    IN /\ p \in pending /\ p.op = "updateTransaction"
       /\ pending' = pending \ {p}
       /\ transactions' = IF Found(q) THEN Replaced(transactions, new) ELSE transactions
       /\ res' = [Respond(p.route, "updateTransaction", p.rq, TRUE, p.id, p.body, c)
                    EXCEPT !.read = p.read]
       /\ UNCHANGED <<accounts, appointments, feedbacks, shifts,
                      blogs, scorebands, therapists, userQuizzes, nextId>>

\* deleteTransaction that looks the transaction up and does not remove it
deleteTransactionKeeps(route, rq, id) ==
    LET q == findById(transactions, id)
        c == IF q.threw THEN Forward(rq.ctx, 500, "Failed to delete transaction")
             ELSE IF ~Found(q) THEN Forward(rq.ctx, 404, "Transaction not found")
             ELSE Write(rq.ctx, 200, "message", "Transaction deleted successfully", NoDoc)
    IN /\ transactions' = transactions
       /\ res' = Respond(route, "deleteTransaction", rq, TRUE, id, NoBody, c)
       /\ UNCHANGED <<accounts, appointments, feedbacks, shifts,
                      blogs, scorebands, therapists, userQuizzes, nextId, pending>>

\* validationResult(req) is empty here too; findByIdAndDelete, then the
\* 404 or the confirmation
deleteTransaction(route, rq, id) ==
    LET q == findById(transactions, id)
        c == IF q.threw THEN Forward(rq.ctx, 500, "Failed to delete transaction")
             ELSE IF ~Found(q) THEN Forward(rq.ctx, 404, "Transaction not found")
             ELSE Write(rq.ctx, 200, "message", "Transaction deleted successfully", NoDoc)
    IN /\ transactions' = IF Found(q) THEN Removed(transactions, id) ELSE transactions
       /\ res' = Respond(route, "deleteTransaction", rq, TRUE, id, NoBody, c)
       /\ UNCHANGED <<accounts, appointments, feedbacks, shifts,
                      blogs, scorebands, therapists, userQuizzes, nextId, pending>>

(***************************************************************************)
(* Appointment                                                             *)
(***************************************************************************)
\* new Appointment({...}) in createAppointment: the constructor is given
\* the key checkoutImage, which the schema (checkOutImage) does not
\* declare, so the strict schema drops it
AppointmentDoc(id, body) ==
    [_id |-> id,
     therapistId |-> IdOf(body, "therapistId"),
     customerId |-> IdOf(body, "customerId"),
     slotsId |-> IdOf(body, "slotsId"),
     serviceId |-> IdOf(body, "serviceId"),
     checkInImage |-> Str(body, "checkInImage"),
     checkOutImage |-> "",
     notes |-> Str(body, "notes"),
     amount |-> Num(body, "amount"),
     status |-> Str(body, "status")]

\* AppointmentSchema validation
AppointmentValid(d) ==
    /\ d.therapistId # NoId /\ d.customerId # NoId
    /\ d.serviceId # NoId /\ d.slotsId # NoId
    /\ d.status \in AppointmentStatuses

getAppointment(route, rq, id) ==
    LET q == findById(appointments, id)
        c == IF q.threw THEN Forward(rq.ctx, 500, "Internal Server Error")
             ELSE IF ~Found(q) THEN Forward(rq.ctx, 404, "Appointment not found")
             ELSE Write(rq.ctx, 200, "doc", "", q.doc)
    IN /\ res' = Respond(route, "getAppointment", rq, TRUE, id, NoBody, c)
       /\ UNCHANGED <<accounts, appointments, feedbacks, shifts, transactions,
                      blogs, scorebands, therapists, userQuizzes, nextId, pending>>

\* createAppointment without the test of serviceId
createAppointmentNoServiceCheck(route, rq, body) ==
    LET doc == AppointmentDoc(nextId, body)
        bad == NotId(body, "therapistId") \/ NotId(body, "customerId")
               \/ NotId(body, "slotsId") \/ NotStr(body, "status")
        ok == ~bad /\ AppointmentValid(doc)
        c == IF bad THEN Forward(rq.ctx, 400, "Bad request")
             ELSE IF ok THEN Write(rq.ctx, 200, "doc", "", doc)
             ELSE Forward(rq.ctx, 500, "Internal Server Error")
    IN /\ ok => nextId <= MaxId
       /\ appointments' = IF ok THEN appointments \cup {doc} ELSE appointments
       /\ nextId' = IF ok THEN nextId + 1 ELSE nextId
       /\ res' = Respond(route, "createAppointment", rq, TRUE, NoId, body, c)
       /\ UNCHANGED <<accounts, feedbacks, shifts, transactions,
                      blogs, scorebands, therapists, userQuizzes, pending>>

createAppointment(route, rq, body) ==
    LET doc == AppointmentDoc(nextId, body)
        bad == NotId(body, "therapistId") \/ NotId(body, "customerId")
               \/ NotId(body, "slotsId") \/ NotId(body, "serviceId")
               \/ NotStr(body, "status")
        ok == ~bad /\ AppointmentValid(doc)
        c == IF bad THEN Forward(rq.ctx, 400, "Bad request")
             ELSE IF ok THEN Write(rq.ctx, 200, "doc", "", doc)
             ELSE Forward(rq.ctx, 500, "Internal Server Error")
    IN /\ ok => nextId <= MaxId
       /\ appointments' = IF ok THEN appointments \cup {doc} ELSE appointments
       /\ nextId' = IF ok THEN nextId + 1 ELSE nextId
       /\ res' = Respond(route, "createAppointment", rq, TRUE, NoId, body, c)
       /\ UNCHANGED <<accounts, feedbacks, shifts, transactions,
                      blogs, scorebands, therapists, userQuizzes, pending>>

\* the earlier createAppointment: the four references only, so the
\* schema's required status is never set
AppointmentDocEarly(id, body) ==
    [_id |-> id,
     therapistId |-> IdOf(body, "therapistId"),
     customerId |-> IdOf(body, "customerId"),
     slotsId |-> IdOf(body, "slotsId"),
     serviceId |-> IdOf(body, "serviceId"),
     checkInImage |-> "",
     checkOutImage |-> "",
     notes |-> "",
     amount |-> NoNum,
     status |-> ""]

createAppointmentEarly(route, rq, body) ==
    LET doc == AppointmentDocEarly(nextId, body)
        bad == NotId(body, "therapistId") \/ NotId(body, "customerId")
               \/ NotId(body, "slotsId") \/ NotId(body, "serviceId")
        ok == ~bad /\ AppointmentValid(doc)
        c == IF bad THEN Forward(rq.ctx, 400, "Bad request")
             ELSE IF ok THEN Write(rq.ctx, 200, "doc", "", doc)
             ELSE Forward(rq.ctx, 500, "Internal Server Error")
    IN /\ ok => nextId <= MaxId
       /\ appointments' = IF ok THEN appointments \cup {doc} ELSE appointments
       /\ nextId' = IF ok THEN nextId + 1 ELSE nextId
       /\ res' = Respond(route, "createAppointmentEarly", rq, TRUE, NoId, body, c)
       /\ UNCHANGED <<accounts, feedbacks, shifts, transactions,
                      blogs, scorebands, therapists, userQuizzes, pending>>

\* the earlier updateAppointment: one findByIdAndUpdate(id, req.body,
\* {new: true}) with no runValidators, so the body's fields are set as they
\* come
updateAppointmentEarly(route, rq, id, body) ==
    LET q == findById(appointments, id)
        new == ApplyPatch(q.doc, body)
        c == IF q.threw THEN Forward(rq.ctx, 500, "Internal Server Error")
             ELSE IF ~Found(q) THEN Forward(rq.ctx, 404, "Appointment not found")
             ELSE Write(rq.ctx, 200, "message", "Appointment updated successfully", new)
    IN /\ appointments' = IF Found(q) THEN Replaced(appointments, new) ELSE appointments
       /\ res' = Respond(route, "updateAppointmentEarly", rq, TRUE, id, body, c)
       /\ UNCHANGED <<accounts, feedbacks, shifts, transactions,
                      blogs, scorebands, therapists, userQuizzes, nextId, pending>>

deleteAppointment(route, rq, id) ==
    LET q == findById(appointments, id)
        c == IF q.threw THEN Forward(rq.ctx, 500, "Internal Server Error")
             ELSE IF ~Found(q) THEN Forward(rq.ctx, 404, "Appointment not found")
             ELSE Write(rq.ctx, 200, "message", "Delete Successfully", NoDoc)
    IN /\ appointments' = IF Found(q) THEN Removed(appointments, id) ELSE appointments
       /\ res' = Respond(route, "deleteAppointment", rq, TRUE, id, NoBody, c)
       /\ UNCHANGED <<accounts, feedbacks, shifts, transactions,
                      blogs, scorebands, therapists, userQuizzes, nextId, pending>>

\* Appointment.find({customerId}), then 200 with the list, empty or not;
\* populate() fills the references of the documents in the answer, which
\* is recorded here by the stored documents it is made of
getAppointmentsByCustomerId(route, rq, customerId) ==
    LET found == {a \in appointments : a.customerId = customerId}
        c == IF customerId = BadId THEN Forward(rq.ctx, 500, "Internal Server Error")
             ELSE Write(rq.ctx, 200, "docs", "", ListDoc(found))
    IN /\ res' = Respond(route, "getAppointmentsByCustomerId", rq, TRUE,
                         customerId, NoBody, c)
       /\ UNCHANGED <<accounts, appointments, feedbacks, shifts, transactions,
                      blogs, scorebands, therapists, userQuizzes, nextId, pending>>

\* Therapist.findOne({accountId}) gives one of the therapists of the
\* account, whichever the store returns first; then the appointments of
\* that therapist
getAppointmentsByAccountId(route, rq, accountId) ==
    LET mine == {t \in therapists : t.accountId = accountId}
    IN /\ IF accountId = BadId
          THEN res' = Respond(route, "getAppointmentsByAccountId", rq, TRUE, accountId,
                              NoBody, Forward(rq.ctx, 500, "Internal Server Error"))
          ELSE IF mine = {}
          THEN res' = Respond(route, "getAppointmentsByAccountId", rq, TRUE, accountId,
                              NoBody, Forward(rq.ctx, 404,
                                              "No therapist found for this accountId"))
          ELSE \E therapist \in mine :
                  res' = Respond(route, "getAppointmentsByAccountId", rq, TRUE, accountId,
                                 NoBody,
                                 Write(rq.ctx, 200, "docs", "",
                                       ListDoc({a \in appointments :
                                                   a.therapistId = therapist._id})))
       /\ UNCHANGED <<accounts, appointments, feedbacks, shifts, transactions,
                      blogs, scorebands, therapists, userQuizzes, nextId, pending>>

\* req.files as multer's fields() leaves it: present is FALSE when
\* req.files is undefined; a field holds the stored file name, "" when
\* the request carried no file for it
NoFiles == [present |-> FALSE, checkInImage |-> "", checkOutImage |-> ""]

\* `${req.protocol}://${req.get("host")}/images/${filename}`
ImageUrl(filename) ==
    CASE filename = "in.png" -> "http://host/images/in.png"
      [] filename = "out.png" -> "http://host/images/out.png"
      [] filename = "fb.png" -> "http://host/images/fb.png"
      [] OTHER -> "http://host/images/"

ImageFields == {"checkInImage", "checkOutImage"}

\* updateData that leaves the body's image fields in place when no file
\* was uploaded
updateDataTrustsBody(body, files, appointment) ==
    [f \in DOMAIN body \cup ImageFields |->
        IF f = "checkInImage"
        THEN IF files.present /\ files.checkInImage # ""
             THEN ImageUrl(files.checkInImage)
             ELSE IF Has(body, f) THEN body[f] ELSE appointment.checkInImage
        ELSE IF f = "checkOutImage"
        THEN IF files.present /\ files.checkOutImage # ""
             THEN ImageUrl(files.checkOutImage)
             ELSE IF Has(body, f) THEN body[f] ELSE appointment.checkOutImage
        ELSE body[f]]

\* updateData: the body, with both image keys overwritten by the uploaded
\* file's URL or else by the value read from the appointment
updateData(body, files, appointment) ==
    [f \in DOMAIN body \cup ImageFields |->
        IF f = "checkInImage"
        THEN IF files.present /\ files.checkInImage # ""
             THEN ImageUrl(files.checkInImage)
             ELSE appointment.checkInImage
        ELSE IF f = "checkOutImage"
        THEN IF files.present /\ files.checkOutImage # ""
             THEN ImageUrl(files.checkOutImage)
             ELSE appointment.checkOutImage
        ELSE body[f]]

\* findByIdAndUpdate(id, updateData): an image key whose value is
\* undefined is not part of the $set
ApplyUpdateData(doc, u) ==
    [f \in DOMAIN doc |->
        IF f \in DOMAIN u /\ f # "_id" /\ (f \in ImageFields => u[f] # "")
        THEN u[f] ELSE doc[f]]

\* runValidators: the validators of the paths the update sets
UpdateValid(u) ==
    /\ Has(u, "status") => u.status \in AppointmentStatuses
    /\ \A f \in {"therapistId", "customerId", "serviceId", "slotsId"} :
          Has(u, f) => u[f] # NoId

\* updateAppointment up to its first await: the lookup of the appointment;
\* inFlight is the number of requests the server has suspended at once
updateAppointmentLookup(route, rq, id, body, files, inFlight) ==
    LET q == findById(appointments, id)
        c == IF q.threw THEN Forward(rq.ctx, 500, "Internal Server Error")
             ELSE Forward(rq.ctx, 404, "Appointment not found")
    IN IF Found(q)
       THEN /\ Cardinality(pending) < inFlight
            /\ pending' = pending \cup
                   {[op |-> "updateAppointment", route |-> route, rq |-> rq,
                     id |-> id, body |-> body, files |-> files,
                     appointment |-> q.doc]}
            /\ UNCHANGED <<accounts, appointments, feedbacks, shifts, transactions,
                           blogs, scorebands, therapists, userQuizzes, nextId, res>>
       ELSE /\ res' = Respond(route, "updateAppointment", rq, TRUE, id, body, c)
            /\ UNCHANGED <<accounts, appointments, feedbacks, shifts, transactions,
                           blogs, scorebands, therapists, userQuizzes, nextId, pending>>

updateAppointment(route, rq, id, body, files) ==
    updateAppointmentLookup(route, rq, id, body, files, MaxPending)

\* updateAppointment from the lookup's result on: build updateData, write
\* it with findByIdAndUpdate and answer 200 with whatever that returned
updateAppointmentWrite(p) ==
    LET u == updateData(p.body, p.files, p.appointment)
        q == findById(appointments, p.id)
        new == ApplyUpdateData(q.doc, u)
        c == IF ~UpdateValid(u) THEN Forward(p.rq.ctx, 500, "Internal Server Error")
             ELSE IF Found(q)
             THEN Write(p.rq.ctx, 200, "message", "Appointment updated successfully", new)
             ELSE Write(p.rq.ctx, 200, "message", "Appointment updated successfully", NoDoc)
    IN /\ p \in pending /\ p.op = "updateAppointment"
       /\ pending' = pending \ {p}
       /\ appointments' = IF UpdateValid(u) /\ Found(q)
                          THEN Replaced(appointments, new) ELSE appointments
       /\ res' = [Respond(p.route, "updateAppointment", p.rq, TRUE, p.id, p.body, c)
                    EXCEPT !.files = p.files, !.read = p.appointment]
       /\ UNCHANGED <<accounts, feedbacks, shifts, transactions,
                      blogs, scorebands, therapists, userQuizzes, nextId>>

(***************************************************************************)
(* Feedback                                                                *)
(***************************************************************************)
\* a Feedback that takes serviceId and therapistId from the body when the
\* body has them
FeedbackDocTrustsBody(id, user, body, file, appointment) ==
    [_id |-> id,
     accountId |-> user._id,
     appointmentId |-> IdOf(body, "appointmentId"),
     serviceId |-> IF Has(body, "serviceId") THEN body.serviceId ELSE appointment.serviceId,
     therapistId |-> IF Has(body, "therapistId") THEN body.therapistId ELSE appointment.therapistId,
     images |-> IF file # NoFile THEN ImageUrl(file.name) ELSE Str(body, "images"),
     comment |-> Str(body, "comment"),
     rating |-> Num(body, "rating")]

\* a Feedback that takes accountId from the body when the body has it
FeedbackDocBodyAccount(id, user, body, file, appointment) ==
    [_id |-> id,
     accountId |-> IF Has(body, "accountId") THEN body.accountId ELSE user._id,
     appointmentId |-> IdOf(body, "appointmentId"),
     serviceId |-> appointment.serviceId,
     therapistId |-> appointment.therapistId,
     images |-> IF file # NoFile THEN ImageUrl(file.name) ELSE Str(body, "images"),
     comment |-> Str(body, "comment"),
     rating |-> Num(body, "rating")]

\* new Feedback({...}) in createFeedback: the account comes from the
\* identity, the service and the therapist from the appointment read
FeedbackDoc(id, user, body, file, appointment) ==
    [_id |-> id,
     accountId |-> user._id,
     appointmentId |-> IdOf(body, "appointmentId"),
     serviceId |-> appointment.serviceId,
     therapistId |-> appointment.therapistId,
     images |-> IF file # NoFile THEN ImageUrl(file.name) ELSE Str(body, "images"),
     comment |-> Str(body, "comment"),
     rating |-> Num(body, "rating")]

\* feedbackSchema validation
FeedbackValid(d) ==
    /\ d.accountId # NoId /\ d.appointmentId # NoId
    /\ d.serviceId # NoId /\ d.therapistId # NoId
    /\ d.comment # "" /\ d.rating # NoNum

getFeedback(route, rq, id) ==
    LET q == findById(feedbacks, id)
        c == IF q.threw THEN Forward(rq.ctx, 500, "Internal Server Error")
             ELSE IF ~Found(q) THEN Forward(rq.ctx, 404, "Feedback not found")
             ELSE Write(rq.ctx, 200, "doc", "", q.doc)
    IN /\ res' = Respond(route, "getFeedback", rq, TRUE, id, NoBody, c)
       /\ UNCHANGED <<accounts, appointments, feedbacks, shifts, transactions,
                      blogs, scorebands, therapists, userQuizzes, nextId, pending>>

\* createFeedback up to its first await: the checks and the lookup of the
\* appointment
createFeedback(route, rq, body) ==
    LET bad == NotId(body, "appointmentId") \/ NotNum(body, "rating")
        q == findById(appointments, IdOf(body, "appointmentId"))
        c == IF bad THEN Forward(rq.ctx, 400, "Bad request")
             ELSE IF rq.user = NoUser THEN Forward(rq.ctx, 401, "Authentication required")
             ELSE IF q.threw THEN Forward(rq.ctx, 500, "Internal Server Error")
             ELSE Forward(rq.ctx, 404, "Appointment not found")
    IN IF ~bad /\ rq.user # NoUser /\ Found(q)
       THEN /\ Cardinality(pending) < MaxPending
            /\ pending' = pending \cup
                   {[op |-> "createFeedback", route |-> route, rq |-> rq,
                     id |-> NoId, body |-> body, files |-> NoFiles,
                     appointment |-> q.doc]}
            /\ UNCHANGED <<accounts, appointments, feedbacks, shifts, transactions,
                           blogs, scorebands, therapists, userQuizzes, nextId, res>>
       ELSE /\ res' = Respond(route, "createFeedback", rq, TRUE, NoId, body, c)
            /\ UNCHANGED <<accounts, appointments, feedbacks, shifts, transactions,
                           blogs, scorebands, therapists, userQuizzes, nextId, pending>>

\* createFeedback from the lookup's result on: build the Feedback and save
createFeedbackSave(p) ==
    LET doc == FeedbackDoc(nextId, p.rq.user, p.body, p.rq.file, p.appointment)
        ok == FeedbackValid(doc)
        c == IF ok THEN Write(p.rq.ctx, 201, "doc", "", doc)
             ELSE Forward(p.rq.ctx, 500, "Internal Server Error")
    IN /\ p \in pending /\ p.op = "createFeedback"
       /\ ok => nextId <= MaxId
       /\ pending' = pending \ {p}
       /\ feedbacks' = IF ok THEN feedbacks \cup {doc} ELSE feedbacks
       /\ nextId' = IF ok THEN nextId + 1 ELSE nextId
       /\ res' = [Respond(p.route, "createFeedback", p.rq, TRUE, NoId, p.body, c)
                    EXCEPT !.read = p.appointment]
       /\ UNCHANGED <<accounts, appointments, shifts, transactions,
                      blogs, scorebands, therapists, userQuizzes>>

(***************************************************************************)
(* Routes: Express matches the route, runs its chain and, when every       *)
(* middleware called next(), the controller handler.  T is the set of      *)
(* cookies and B the set of bodies the clients send.                       *)
(***************************************************************************)
\* updateFeedback up to its await: findByIdAndUpdate is issued; read is the
\* feedback as stored at that moment, kept for the properties
updateFeedback(route, rq, id, body) ==
    /\ Cardinality(pending) < MaxUpdates
    /\ pending' = pending \cup
           {[op |-> "updateFeedback", route |-> route, rq |-> rq,
             id |-> id, body |-> body, read |-> (findById(feedbacks, id)).doc]}
    /\ UNCHANGED <<accounts, appointments, feedbacks, shifts, transactions,
                   blogs, scorebands, therapists, userQuizzes, nextId, res>>

\* updateFeedback from the await on: the store applies findByIdAndUpdate in
\* one step, {new: true}
updateFeedbackWrite(p) ==
    LET q == findById(feedbacks, p.id)
        new == ApplyPatch(q.doc, p.body)
        c == IF q.threw THEN Forward(p.rq.ctx, 500, "Internal Server Error")
             ELSE IF ~Found(q) THEN Forward(p.rq.ctx, 404, "Feedback not found")
             ELSE Write(p.rq.ctx, 200, "message", "Feedback updated successfully", new)
    IN /\ p \in pending /\ p.op = "updateFeedback"
       /\ pending' = pending \ {p}
       /\ feedbacks' = IF Found(q) THEN Replaced(feedbacks, new) ELSE feedbacks
       /\ res' = [Respond(p.route, "updateFeedback", p.rq, TRUE, p.id, p.body, c)
                    EXCEPT !.read = p.read]
       /\ UNCHANGED <<accounts, appointments, shifts, transactions,
                      blogs, scorebands, therapists, userQuizzes, nextId>>

Route_PostAccount(B) ==
    \E body \in B :
        createAccount("POST /account", Enter("POST /account", NoToken, NoFile), body)

Route_GetAccount(T) ==
    \E token \in T, id \in ParamIds :
        LET r == "GET /account/:id"
            rq == Enter(r, token, NoFile)
        IN IF Reached(r, rq) THEN getAccount(r, rq, id)
           ELSE Rejected(r, "getAccount", rq, id, NoBody)

Route_DeleteAccount(T) ==
    \E token \in T, id \in ParamIds :
        LET r == "DELETE /account/:id"
            rq == Enter(r, token, NoFile)
        IN IF Reached(r, rq) THEN deleteAccount(r, rq, id)
           ELSE Rejected(r, "deleteAccount", rq, id, NoBody)

Route_PutAccount(T, B) ==
    \E token \in T, id \in ParamIds, body \in B :
        LET r == "PUT /account/:id"
            rq == Enter(r, token, NoFile)
        IN IF Reached(r, rq) THEN updateAccount(r, rq, id, body)
           ELSE Rejected(r, "updateAccount", rq, id, body)

Route_ChangePassword(T, B) ==
    \E token \in T, body \in B :
        LET r == "POST /account/changePassword"
            rq == Enter(r, token, NoFile)
        IN IF Reached(r, rq) THEN changePassword(r, rq, body)
           ELSE Rejected(r, "changePassword", rq, NoId, body)

Route_PostAppointment(T, B) ==
    \E token \in T, body \in B :
        LET r == "POST /appointment"
            rq == Enter(r, token, NoFile)
        IN IF Reached(r, rq) THEN createAppointment(r, rq, body)
           ELSE Rejected(r, "createAppointment", rq, NoId, body)

\* the earlier router: no middleware in front of the earlier handler
Route_PostAppointmentEarly(B) ==
    \E body \in B :
        createAppointmentEarly("POST /appointment (early)",
                               Enter("POST /appointment (early)", NoToken, NoFile), body)

Route_GetAppointment ==
    \E id \in ParamIds :
        getAppointment("GET /appointment/:id",
                       Enter("GET /appointment/:id", NoToken, NoFile), id)

Route_DeleteAppointment ==
    \E id \in ParamIds :
        deleteAppointment("DELETE /appointment/:id",
                          Enter("DELETE /appointment/:id", NoToken, NoFile), id)

Route_PutAppointment(B, F) ==
    \E id \in ParamIds, body \in B, files \in F :
        updateAppointment("PUT /appointment/:id",
                          Enter("PUT /appointment/:id", NoToken, NoFile), id, body, files)

\* the same route while other update requests are in flight
Route_PutAppointmentConcurrent(B, F) ==
    \E id \in ParamIds, body \in B, files \in F :
        updateAppointmentLookup("PUT /appointment/:id",
                                Enter("PUT /appointment/:id", NoToken, NoFile),
                                id, body, files, MaxUpdates)

Route_PutAppointmentResume ==
    \E p \in pending : updateAppointmentWrite(p)

Route_PostFeedback(T, B, U) ==
    \E token \in T, body \in B, file \in U :
        LET r == "POST /feedback"
            rq == Enter(r, token, file)
        IN IF Reached(r, rq) THEN createFeedback(r, rq, body)
           ELSE Rejected(r, "createFeedback", rq, NoId, body)

Route_PostFeedbackResume ==
    \E p \in pending : createFeedbackSave(p)

Route_GetFeedback ==
    \E id \in ParamIds :
        getFeedback("GET /feedback/:id", Enter("GET /feedback/:id", NoToken, NoFile), id)

Route_PostShift(T, B) ==
    \E token \in T, body \in B :
        LET r == "POST /shifts"
            rq == Enter(r, token, NoFile)
        IN IF Reached(r, rq) THEN createShift(r, rq, body)
           ELSE Rejected(r, "createShift", rq, NoId, body)

Route_PutShift(T, B) ==
    \E token \in T, id \in ParamIds, body \in B :
        LET r == "PUT /shifts/:shiftId"
            rq == Enter(r, token, NoFile)
        IN IF Reached(r, rq) THEN updateShift(r, rq, id, body)
           ELSE Rejected(r, "updateShift", rq, id, body)

Route_DeleteShift(T) ==
    \E token \in T, id \in ParamIds :
        LET r == "DELETE /shifts/:shiftId"
            rq == Enter(r, token, NoFile)
        IN IF Reached(r, rq) THEN deleteShift(r, rq, id)
           ELSE Rejected(r, "deleteShift", rq, id, NoBody)

Route_PostTransaction(T, B) ==
    \E token \in T, body \in B :
        LET r == "POST /transaction"
            rq == Enter(r, token, NoFile)
        IN IF Reached(r, rq) THEN createTransaction(r, rq, body)
           ELSE Rejected(r, "createTransaction", rq, NoId, body)

Route_GetTransaction ==
    \E id \in ParamIds :
        getTransaction("GET /transaction/:transactionId",
                       Enter("GET /transaction/:transactionId", NoToken, NoFile), id)

Route_DeleteTransaction ==
    \E id \in ParamIds :
        deleteTransaction("DELETE /transaction/:transactionId",
                          Enter("DELETE /transaction/:transactionId", NoToken, NoFile), id)

(***************************************************************************)
(* Blog, Scoreband, Therapist, UserQuiz.  An array field of a body is a    *)
(* sequence; its elements are complete sub-documents.                      *)
(***************************************************************************)
Arr(b, f) == IF Has(b, f) THEN b[f] ELSE <<>>

\* catch (err) { res.status(500).json({message: "Internal Server Error"}) }
\* entered when the write before it threw
Catch500(c) ==
    IF c.threw THEN Write(c, 500, "message", "Internal Server Error", NoDoc) ELSE c

\* new Blog({staffId, title, status, content}); an array left out is []
BlogDoc(id, body) ==
    [_id |-> id,
     staffId |-> IdOf(body, "staffId"),
     title |-> Str(body, "title"),
     status |-> Str(body, "status"),
     content |-> Arr(body, "content")]

\* blogSchema validation: content is not required
BlogValid(d) == d.staffId # NoId /\ d.title # "" /\ d.status # ""

\* the 404 is written without a return, so res.status(200).json(blog)
\* follows it
getBlog(route, rq, id) ==
    LET q == findById(blogs, id)
        c1 == IF Found(q) THEN rq.ctx
              ELSE Write(rq.ctx, 404, "message", "Blog not found", NoDoc)
        c == IF q.threw THEN Write(rq.ctx, 500, "message", "Internal Server Error", NoDoc)
             ELSE IF Found(q) THEN Write(c1, 200, "doc", "", q.doc)
             ELSE Catch500(Write(c1, 200, "null", "", NoDoc))
    IN /\ res' = Respond(route, "getBlog", rq, TRUE, id, NoBody, c)
       /\ UNCHANGED <<accounts, appointments, feedbacks, shifts, transactions,
                      blogs, scorebands, therapists, userQuizzes, nextId, pending>>

\* the 400 is written without a return, so the Blog is built and saved
createBlog(route, rq, body) ==
    LET bad == \/ NotId(body, "staffId") \/ NotStr(body, "title")
               \/ NotStr(body, "status") \/ ~Has(body, "content")
        c1 == IF bad THEN Write(rq.ctx, 400, "message", "Bad request", NoDoc)
              ELSE rq.ctx
        doc == BlogDoc(nextId, body)
        ok == BlogValid(doc)
        c == IF ok THEN Catch500(Write(c1, 200, "doc", "", doc))
             ELSE Write(c1, 500, "message", "Internal Server Error", NoDoc)
    IN /\ ok => nextId <= MaxId
       /\ blogs' = IF ok THEN blogs \cup {doc} ELSE blogs
       /\ nextId' = IF ok THEN nextId + 1 ELSE nextId
       /\ res' = Respond(route, "createBlog", rq, TRUE, NoId, body, c)
       /\ UNCHANGED <<accounts, appointments, feedbacks, shifts, transactions,
                      scorebands, therapists, userQuizzes, pending>>

\* new Scoreband({roadmapId, ...}): the schema has no roadmapId, and its
\* roadmap array is [] when not given
ScorebandDoc(id, body) ==
    [_id |-> id,
     roadmap |-> <<>>,
     minPoint |-> Num(body, "minPoint"),
     maxPoint |-> Num(body, "maxPoint"),
     typeOfSkin |-> Str(body, "typeOfSkin"),
     skinExplanation |-> Str(body, "skinExplanation")]

ScorebandValid(d) ==
    /\ d.minPoint # NoNum /\ d.maxPoint # NoNum
    /\ d.typeOfSkin # "" /\ d.skinExplanation # ""

getScoreband(route, rq, id) ==
    LET q == findById(scorebands, id)
        c1 == IF Found(q) THEN rq.ctx
              ELSE Write(rq.ctx, 404, "message", "Scoreband not found", NoDoc)
        c == IF q.threw THEN Write(rq.ctx, 500, "message", "Internal Server Error", NoDoc)
             ELSE IF Found(q) THEN Write(c1, 200, "doc", "", q.doc)
             ELSE Catch500(Write(c1, 200, "null", "", NoDoc))
    IN /\ res' = Respond(route, "getScoreband", rq, TRUE, id, NoBody, c)
       /\ UNCHANGED <<accounts, appointments, feedbacks, shifts, transactions,
                      blogs, scorebands, therapists, userQuizzes, nextId, pending>>

createScoreband(route, rq, body) ==
    LET bad == \/ NotId(body, "roadmapId") \/ NotNum(body, "minPoint")
               \/ NotNum(body, "maxPoint") \/ NotStr(body, "typeOfSkin")
               \/ NotStr(body, "skinExplanation")
        c1 == IF bad THEN Write(rq.ctx, 400, "message", "Bad request", NoDoc)
              ELSE rq.ctx
        doc == ScorebandDoc(nextId, body)
        ok == ScorebandValid(doc)
        c == IF ok THEN Catch500(Write(c1, 200, "doc", "", doc))
             ELSE Write(c1, 500, "message", "Internal Server Error", NoDoc)
    IN /\ ok => nextId <= MaxId
       /\ scorebands' = IF ok THEN scorebands \cup {doc} ELSE scorebands
       /\ nextId' = IF ok THEN nextId + 1 ELSE nextId
       /\ res' = Respond(route, "createScoreband", rq, TRUE, NoId, body, c)
       /\ UNCHANGED <<accounts, appointments, feedbacks, shifts, transactions,
                      blogs, therapists, userQuizzes, pending>>

TherapistDoc(id, body) ==
    [_id |-> id,
     accountId |-> IdOf(body, "accountId"),
     specialization |-> Arr(body, "specialization"),
     certification |-> Arr(body, "certification"),
     experience |-> Str(body, "experience")]

TherapistValid(d) == d.accountId # NoId /\ d.experience # ""

\* the handler looks up req.params.id; params holds the keys the route's
\* path declares
getTherapist(route, rq, params) ==
    LET id == IdOf(params, "id")
        q == findById(therapists, id)
        c == IF q.threw THEN Forward(rq.ctx, 500, "Internal Server Error")
             ELSE IF ~Found(q) THEN Forward(rq.ctx, 404, "Therapist not found")
             ELSE Write(rq.ctx, 200, "doc", "", q.doc)
    IN /\ res' = Respond(route, "getTherapist", rq, TRUE,
                         IdOf(params, "therapistId"), NoBody, c)
       /\ UNCHANGED <<accounts, appointments, feedbacks, shifts, transactions,
                      blogs, scorebands, therapists, userQuizzes, nextId, pending>>

createTherapist(route, rq, body) ==
    LET bad == \/ NotId(body, "accountId") \/ ~Has(body, "specialization")
               \/ ~Has(body, "certification") \/ NotStr(body, "experience")
        doc == TherapistDoc(nextId, body)
        ok == ~bad /\ TherapistValid(doc)
        c == IF bad THEN Forward(rq.ctx, 400, "All fields are required")
             ELSE IF ok THEN Write(rq.ctx, 201, "doc", "", doc)
             ELSE Forward(rq.ctx, 500, "Internal Server Error")
    IN /\ ok => nextId <= MaxId
       /\ therapists' = IF ok THEN therapists \cup {doc} ELSE therapists
       /\ nextId' = IF ok THEN nextId + 1 ELSE nextId
       /\ res' = Respond(route, "createTherapist", rq, TRUE, NoId, body, c)
       /\ UNCHANGED <<accounts, appointments, feedbacks, shifts, transactions,
                      blogs, scorebands, userQuizzes, pending>>

\* what findByIdAndUpdate(id, ...) and findByIdAndDelete(id) can match: the
\* document with the id, or nothing (NoDoc).  Neither replaces an undefined
\* id by null as findById does, and the filter {_id: undefined} matches
\* nothing when undefined is sent as null and any document when the key is
\* dropped: both outcomes are kept
Matches(coll, id) ==
    IF id = NoId THEN coll \cup {NoDoc}
    ELSE IF Find(coll, id) = {} THEN {NoDoc}
    ELSE Find(coll, id)

\* the handler updates by req.params.id; params holds the keys the route's
\* path declares.  {new: true}: the answer carries the updated therapist
updateTherapist(route, rq, params, body) ==
    LET id == IdOf(params, "id")
    IN \E old \in Matches(therapists, id) :
        LET new == ApplyPatch(old, body)
            c == IF id = BadId THEN Forward(rq.ctx, 500, "Internal Server Error")
                 ELSE IF old = NoDoc THEN Forward(rq.ctx, 404, "Therapist not found")
                 ELSE Write(rq.ctx, 200, "doc", "", new)
        IN /\ therapists' = IF id # BadId /\ old # NoDoc THEN Replaced(therapists, new)
                            ELSE therapists
           /\ res' = Respond(route, "updateTherapist", rq, TRUE,
                             IdOf(params, "therapistId"), body, c)
           /\ UNCHANGED <<accounts, appointments, feedbacks, shifts, transactions,
                          blogs, scorebands, userQuizzes, nextId, pending>>

\* the handler deletes by req.params.id
deleteTherapist(route, rq, params) ==
    LET id == IdOf(params, "id")
    IN \E old \in Matches(therapists, id) :
        LET c == IF id = BadId THEN Forward(rq.ctx, 500, "Internal Server Error")
                 ELSE IF old = NoDoc THEN Forward(rq.ctx, 404, "Therapist not found")
                 ELSE Write(rq.ctx, 200, "message", "Therapist deleted successfully",
                            NoDoc)
        IN /\ therapists' = IF id # BadId /\ old # NoDoc
                            THEN Removed(therapists, old._id) ELSE therapists
           /\ res' = Respond(route, "deleteTherapist", rq, TRUE,
                             IdOf(params, "therapistId"), NoBody, c)
           /\ UNCHANGED <<accounts, appointments, feedbacks, shifts, transactions,
                          blogs, scorebands, userQuizzes, nextId, pending>>

\* new UserQuiz({accountId, scoreBandId, result, totalPoint}): the schema
\* has no result, and its questionResult array is [] when not given
UserQuizDoc(id, body) ==
    [_id |-> id,
     accountId |-> IdOf(body, "accountId"),
     scoreBandId |-> IdOf(body, "scoreBandId"),
     questionResult |-> <<>>,
     totalPoint |-> Num(body, "totalPoint")]

UserQuizValid(d) ==
    d.accountId # NoId /\ d.scoreBandId # NoId /\ d.totalPoint # NoNum

getUserQuiz(route, rq, id) ==
    LET q == findById(userQuizzes, id)
        c == IF q.threw THEN Forward(rq.ctx, 500, "Internal Server Error")
             ELSE IF ~Found(q) THEN Forward(rq.ctx, 404, "User quiz not found")
             ELSE Write(rq.ctx, 200, "doc", "", q.doc)
    IN /\ res' = Respond(route, "getUserQuiz", rq, TRUE, id, NoBody, c)
       /\ UNCHANGED <<accounts, appointments, feedbacks, shifts, transactions,
                      blogs, scorebands, therapists, userQuizzes, nextId, pending>>

createUserQuiz(route, rq, body) ==
    LET bad == \/ NotId(body, "accountId") \/ NotId(body, "scoreBandId")
               \/ ~Has(body, "result") \/ ~Has(body, "totalPoint")
        doc == UserQuizDoc(nextId, body)
        ok == ~bad /\ UserQuizValid(doc)
        c == IF bad THEN Forward(rq.ctx, 400, "All fields are required")
             ELSE IF ok THEN Write(rq.ctx, 201, "doc", "", doc)
             ELSE Forward(rq.ctx, 500, "Internal Server Error")
    IN /\ ok => nextId <= MaxId
       /\ userQuizzes' = IF ok THEN userQuizzes \cup {doc} ELSE userQuizzes
       /\ nextId' = IF ok THEN nextId + 1 ELSE nextId
       /\ res' = Respond(route, "createUserQuiz", rq, TRUE, NoId, body, c)
       /\ UNCHANGED <<accounts, appointments, feedbacks, shifts, transactions,
                      blogs, scorebands, therapists, pending>>

\* err.message of the CastError mongoose raises for a malformed id
CastErrorText == "Cast to ObjectId failed for value"

\* Blog.find(), then a 404 written whatever was found, then the 200 with
\* the list on a response already sent, then the catch block's 500
getAllBlog(route, rq) ==
    LET c1 == Write(rq.ctx, 404, "message", "No blogs found", NoDoc)
        c == Catch500(Write(c1, 200, "docs", "", ListDoc(blogs)))
    IN /\ res' = Respond(route, "getAllBlog", rq, TRUE, NoId, NoBody, c)
       /\ UNCHANGED <<accounts, appointments, feedbacks, shifts, transactions,
                      blogs, scorebands, therapists, userQuizzes, nextId, pending>>

\* findByIdAndDelete, then 200 with what it returned: the removed blog, or
\* null when no blog has the id; the catch block sends err.message
deleteBlog(route, rq, id) ==
    LET q == findById(blogs, id)
        c == IF q.threw THEN Write(rq.ctx, 500, "message", CastErrorText, NoDoc)
             ELSE IF Found(q) THEN Write(rq.ctx, 200, "doc", "", q.doc)
             ELSE Write(rq.ctx, 200, "null", "", NoDoc)
    IN /\ blogs' = IF Found(q) THEN Removed(blogs, id) ELSE blogs
       /\ res' = Respond(route, "deleteBlog", rq, TRUE, id, NoBody, c)
       /\ UNCHANGED <<accounts, appointments, feedbacks, shifts, transactions,
                      scorebands, therapists, userQuizzes, nextId, pending>>

\* findByIdAndUpdate without {new: true}, then 200 with what it returned:
\* the blog as it was before the update, or null when no blog has the id
updateBlog(route, rq, id, body) ==
    LET q == findById(blogs, id)
        c == IF q.threw THEN Write(rq.ctx, 500, "message", CastErrorText, NoDoc)
             ELSE IF Found(q) THEN Write(rq.ctx, 200, "doc", "", q.doc)
             ELSE Write(rq.ctx, 200, "null", "", NoDoc)
    IN /\ blogs' = IF Found(q) THEN Replaced(blogs, ApplyPatch(q.doc, body)) ELSE blogs
       /\ res' = Respond(route, "updateBlog", rq, TRUE, id, body, c)
       /\ UNCHANGED <<accounts, appointments, feedbacks, shifts, transactions,
                      scorebands, therapists, userQuizzes, nextId, pending>>

\* Scoreband.find() gives an array, and !scorebands is false for every
\* array, the empty one included: the 404 is never written
getAllScoreband(route, rq) ==
    LET c == Write(rq.ctx, 200, "docs", "", ListDoc(scorebands))
    IN /\ res' = Respond(route, "getAllScoreband", rq, TRUE, NoId, NoBody, c)
       /\ UNCHANGED <<accounts, appointments, feedbacks, shifts, transactions,
                      blogs, scorebands, therapists, userQuizzes, nextId, pending>>

\* findByIdAndDelete, then 200 {message: "Delete Successfully"} whether or
\* not a scoreband was removed
deleteScoreband(route, rq, id) ==
    LET q == findById(scorebands, id)
        c == IF q.threw THEN Write(rq.ctx, 500, "message", CastErrorText, NoDoc)
             ELSE Write(rq.ctx, 200, "message", "Delete Successfully", NoDoc)
    IN /\ scorebands' = IF Found(q) THEN Removed(scorebands, id) ELSE scorebands
       /\ res' = Respond(route, "deleteScoreband", rq, TRUE, id, NoBody, c)
       /\ UNCHANGED <<accounts, appointments, feedbacks, shifts, transactions,
                      blogs, therapists, userQuizzes, nextId, pending>>

\* findByIdAndUpdate with {new: true}, then 200 with what it returned: the
\* updated scoreband, or null when no scoreband has the id
updateScoreband(route, rq, id, body) ==
    LET q == findById(scorebands, id)
        new == ApplyPatch(q.doc, body)
        c == IF q.threw THEN Write(rq.ctx, 500, "message", CastErrorText, NoDoc)
             ELSE IF Found(q) THEN Write(rq.ctx, 200, "doc", "", new)
             ELSE Write(rq.ctx, 200, "null", "", NoDoc)
    IN /\ scorebands' = IF Found(q) THEN Replaced(scorebands, new) ELSE scorebands
       /\ res' = Respond(route, "updateScoreband", rq, TRUE, id, body, c)
       /\ UNCHANGED <<accounts, appointments, feedbacks, shifts, transactions,
                      blogs, therapists, userQuizzes, nextId, pending>>

Route_PostBlog(B) ==
    \E body \in B : createBlog("POST /blog", Direct, body)

Route_GetBlog ==
    \E id \in ParamIds : getBlog("GET /blog/:id", Direct, id)

Route_PostScoreband(B) ==
    \E body \in B : createScoreband("POST /scoreband", Direct, body)

Route_GetScoreband ==
    \E id \in ParamIds : getScoreband("GET /scoreband/:id", Direct, id)

Route_PostTherapist(B) ==
    \E body \in B : createTherapist("POST /therapist", Direct, body)

Route_GetTherapist ==
    \E id \in ParamIds :
        getTherapist("GET /therapist/:therapistId", Direct, [therapistId |-> id])

Route_PostUserQuiz(B) ==
    \E body \in B : createUserQuiz("POST /userQuiz", Direct, body)

Route_GetUserQuiz ==
    \E id \in ParamIds : getUserQuiz("GET /userQuiz/:id", Direct, id)

(***************************************************************************)
(* Initial state: the administrator's account has been created (POST       *)
(* /account with AdminBody); every other collection is empty and no        *)
(* request has been handled yet                                            *)
(***************************************************************************)
AdminBody ==
    [username |-> "admin", password |-> "p", email |-> "admin@b.com",
     dob |-> "1990-01-01", role |-> "Admin"]

Init ==
    /\ accounts = {AccountDoc(1, AdminBody)}
    /\ appointments = {} /\ feedbacks = {} /\ shifts = {}
    /\ transactions = {} /\ blogs = {} /\ scorebands = {} /\ therapists = {}
    /\ userQuizzes = {}
    /\ nextId = 2
    /\ pending = {}
    /\ res = NoRequest

stores == <<accounts, appointments, feedbacks, shifts, transactions,
            blogs, scorebands, therapists, userQuizzes>>

(***************************************************************************)
(* SpecGate: every route that has the auth gate in front of its handler,   *)
(* driven with every kind of cookie                                        *)
(***************************************************************************)
\* the bodies of the gate specification: one body per route
GateAccountPatches == {[isActive |-> FALSE]}
GatePasswordBodies == {[newPassword |-> "p"]}
GateAppointmentBodies ==
    {[therapistId |-> 1, customerId |-> 1, slotsId |-> 1, serviceId |-> 1,
      status |-> "Scheduled"]}
\* no appointmentId: the handler answers 400 before its first await
GateFeedbackBodies == {[rating |-> 5, comment |-> "ok"]}
GateShiftBodies ==
    {[slotsId |-> 1, appointmentId |-> 1, therapistId |-> 1, date |-> "2025-03-01"]}
GateShiftPatches == {[isAvailable |-> FALSE]}
GateTransactionBodies ==
    {[customerId |-> 1, appointmentId |-> 1, paymentMethod |-> "Cash",
      status |-> "pending"]}

\* the cookies of the gate specification: none, the Admin's, a Customer's
GateTokens == {t \in Tokens : t.kind = "none" \/ (t.kind = "valid" /\ t.role # "Staff")}

NextGate ==
    \/ Route_GetAccount(Tokens)
    \/ Route_DeleteAccount(Tokens)
    \/ Route_PutAccount(GateTokens, GateAccountPatches)
    \/ Route_ChangePassword(GateTokens, GatePasswordBodies)
    \/ Route_PostAppointment(GateTokens, GateAppointmentBodies)
    \/ Route_PostFeedback(GateTokens, GateFeedbackBodies, {NoFile})
    \/ Route_PostShift(GateTokens, GateShiftBodies)
    \/ Route_PutShift(GateTokens, GateShiftPatches)
    \/ Route_DeleteShift(GateTokens)
    \/ Route_PostTransaction(GateTokens, GateTransactionBodies)

SpecGate == Init /\ [][NextGate]_vars

(***************************************************************************)
(* Claims on the gates, checked under SpecGate                             *)
(***************************************************************************)
\* C1: a request without a jwt cookie on a route whose chain starts with
\* the auth gate is answered 401, its controller handler is not invoked,
\* and the step that handles it leaves every collection as it was.
NoCookieIsRejected ==
    [][(res'.route \in GatedRoutes /\ res'.token.kind = "none")
          => /\ res'.sent.status = 401
             /\ res'.attempts = <<401>>
             /\ ~res'.handler
             /\ UNCHANGED stores]_vars

\* C1 witness: a DELETE of a stored shift without a cookie was answered 401
NoCookieOnStoredShift ==
    /\ res.route = "DELETE /shifts/:shiftId"
    /\ res.token.kind = "none"
    /\ res.sent.status = 401
    /\ \E d \in shifts : d._id = res.id

\* what the auth gate did to a request that carried this token
AuthOutcome(a, token) ==
    CASE token.kind = "none" ->
            /\ a.sent = Json(401, "error", "Authentication required", NoDoc)
            /\ a.nexts = 0 /\ a.user = NoUser
      [] token.kind = "valid" ->
            /\ a.sent = NoResponse /\ a.forwarded = <<>>
            /\ a.nexts = 1
            /\ a.user = [_id |-> token._id, role |-> token.role]
      [] token.kind = "expired" ->
            /\ a.sent = Json(401, "error", "Token expired", NoDoc)
            /\ a.nexts = 0 /\ a.user = NoUser
      [] token.kind = "invalid" ->
            /\ a.sent = Json(401, "error", "Invalid token", NoDoc)
            /\ a.nexts = 0 /\ a.user = NoUser
      [] OTHER ->
            /\ a.sent.status = 500
            /\ a.nexts = 0 /\ a.user = NoUser

\* C2: on every gated route the auth gate, first in the chain, has exactly
\* the outcome that belongs to the kind of token; when it rejects, it is
\* the last thing that ran and its response is the one sent.
AuthOutcomes ==
    res.route \in GatedRoutes =>
        /\ Len(res.trace) >= 1
        /\ res.trace[1].mw = "auth"
        /\ AuthOutcome(res.trace[1], res.token)
        /\ res.token.kind # "valid" =>
              /\ Len(res.trace) = 1 /\ ~res.handler
              /\ res.sent = res.trace[1].sent
              /\ res.attempts = <<res.sent.status>>

\* C2 witness: an expired token was answered 401 "Token expired"
ExpiredTokenSeen ==
    /\ res.route \in GatedRoutes
    /\ res.token.kind = "expired"
    /\ res.sent.text = "Token expired"

\* C3: on DELETE /account/:id, behind the auth gate, isAdmin calls next
\* exactly for the Admin role; any other role is answered 403, deleteAccount
\* is not invoked and the accounts are untouched.
AdminOnlyDelete ==
    [][(res'.route = "DELETE /account/:id" /\ res'.user # NoUser)
          => IF res'.user.role = RoleAdmin
             THEN res'.nexts = 2 /\ res'.handler
             ELSE /\ res'.nexts = 1 /\ ~res'.handler
                  /\ res'.sent.status = 403
                  /\ res'.attempts = <<403>>
                  /\ accounts' = accounts]_vars

\* C3 witness: a non-Admin asked to delete a stored account and got 403
NonAdminDeleteRefused ==
    /\ res.route = "DELETE /account/:id"
    /\ res.user # NoUser /\ res.user.role # RoleAdmin
    /\ res.sent.status = 403
    /\ \E a \in accounts : a._id = res.id

(***************************************************************************)
(* SpecAppointment: the appointment routes.  Two accounts exist (the       *)
(* administrator's and a customer's, both created by POST /account).       *)
(***************************************************************************)
CustomerBody ==
    [username |-> "customer", password |-> "p", email |-> "customer@b.com",
     dob |-> "2000-01-01"]

InitAppointment ==
    /\ accounts = {AccountDoc(1, AdminBody), AccountDoc(2, CustomerBody)}
    /\ appointments = {} /\ feedbacks = {} /\ shifts = {}
    /\ transactions = {} /\ blogs = {} /\ scorebands = {} /\ therapists = {}
    /\ userQuizzes = {}
    /\ nextId = 3
    /\ pending = {}
    /\ res = NoRequest

AdminToken == [kind |-> "valid", _id |-> 1, role |-> "Admin"]

RefFields == {"therapistId", "customerId", "slotsId", "serviceId"}

FullAppointmentBody ==
    [therapistId |-> 1, customerId |-> 2, slotsId |-> 1, serviceId |-> 1,
     status |-> "Scheduled", checkInImage |-> "http://host/images/old.png",
     notes |-> "n1"]

\* the complete body, and the bodies that lack one of the keys the handler
\* tests
AppointmentBodies ==
    {FullAppointmentBody}
    \cup {Without(FullAppointmentBody, f) : f \in RefFields \cup {"status"}}

EarlyAppointmentBodies ==
    LET full == Restrict(FullAppointmentBody, RefFields)
    IN {full} \cup {Without(full, f) : f \in RefFields}

\* a PUT body that names both image fields and one other field
AppointmentPatches ==
    {[checkInImage |-> "http://client/in.png",
      checkOutImage |-> "http://client/out.png", notes |-> "n2"]}

\* req.files: undefined, a new check-in image, a new check-out image
AppointmentFiles ==
    {NoFiles,
     [present |-> TRUE, checkInImage |-> "in.png", checkOutImage |-> ""],
     [present |-> TRUE, checkInImage |-> "", checkOutImage |-> "out.png"]}

NextAppointment ==
    \/ Route_PostAppointment({AdminToken}, AppointmentBodies)
    \/ Route_PostAppointmentEarly(EarlyAppointmentBodies)
    \/ Route_GetAppointment
    \/ Route_DeleteAppointment
    \/ Route_PutAppointment(AppointmentPatches, AppointmentFiles)
    \/ Route_PutAppointmentResume

SpecAppointment == InitAppointment /\ [][NextAppointment]_vars

\* the stored appointment with this _id (NoDoc if there is none)
Stored(coll, id) == IF Find(coll, id) = {} THEN NoDoc ELSE CHOOSE d \in Find(coll, id) : TRUE

Uploaded(files, f) == files.present /\ files[f] # ""

\* C5: when an updateAppointment request whose lookup and write were not
\* separated by another write to the appointment completes, an image field
\* for which it uploaded no file keeps the value stored before, whatever
\* the body says for it, and the body's other fields are stored.
ImagesKeptWithoutUpload ==
    [][LET before == Stored(appointments, res'.id)
           after == Stored(appointments', res'.id)
       IN (/\ res'.op = "updateAppointment"
           /\ \E p \in pending : p.op = "updateAppointment" /\ p \notin pending'
           /\ res'.sent.status = 200
           /\ before # NoDoc
           /\ res'.read = before)
          => /\ after # NoDoc
             /\ \A f \in ImageFields :
                   ~Uploaded(res'.files, f) => after[f] = before[f]
             /\ \A f \in DOMAIN res'.body \ ImageFields :
                   f \in DOMAIN before => after[f] = res'.body[f]]_vars

\* C5 witness: an update without a check-in upload, whose body named
\* another check-in image, completed and the stored image is the old one
ImageKeptSeen ==
    /\ res.op = "updateAppointment" /\ res.sent.status = 200
    /\ ~Uploaded(res.files, "checkInImage")
    /\ Has(res.body, "checkInImage")
    /\ Stored(appointments, res.id) # NoDoc
    /\ Stored(appointments, res.id).checkInImage = "http://host/images/old.png"
    /\ Stored(appointments, res.id).notes = "n2"

\* the body lacks exactly this one of the keys createAppointment needs
LacksOnly(body, f) ==
    /\ ~Has(body, f)
    /\ \A g \in (RefFields \cup {"status"}) \ {f} : Has(body, g)

\* C8: createAppointment (either version) with a body that lacks one of
\* serviceId, therapistId, customerId, slotsId and has the other fields
\* forwards a 400 to the error responder, which answers 400, and the
\* appointments are unchanged.
MissingReferenceIs400 ==
    [][(/\ res'.handler
        /\ \/ res'.op = "createAppointment"
              /\ \E f \in RefFields : LacksOnly(res'.body, f)
           \/ res'.op = "createAppointmentEarly"
              /\ \E f \in RefFields : ~Has(res'.body, f))
          => /\ res'.forwarded = <<[status |-> 400, text |-> "Bad request"]>>
             /\ res'.sent.status = 400
             /\ res'.attempts = <<400>>
             /\ appointments' = appointments
             /\ nextId' = nextId]_vars

\* C8 witness: a POST /appointment without serviceId was answered 400
MissingServiceIdSeen ==
    /\ res.op = "createAppointment" /\ res.handler
    /\ LacksOnly(res.body, "serviceId")
    /\ res.sent.status = 400

(***************************************************************************)
(* SpecFeedback: appointments are booked and deleted while feedback on     *)
(* them is written.                                                        *)
(***************************************************************************)
\* two complete bookings that differ in the service
BookedBodies ==
    {[FullAppointmentBody EXCEPT !.serviceId = s, !.customerId = 1] : s \in {1, 2}}

\* an id no booking uses, for the values a client puts in a feedback body
ClientId == MaxId + 1

\* feedback on each appointment id: without and with a service and a
\* therapist of the client's own, and without the rating or the comment
FeedbackBodies ==
    UNION {LET b == [appointmentId |-> a, rating |-> 5, comment |-> "ok"]
               own == [appointmentId |-> a, rating |-> 5, comment |-> "ok",
                       serviceId |-> ClientId, therapistId |-> ClientId]
           IN {b, own, Without(b, "rating"), Without(b, "comment")}
           : a \in Ids \ {1}}

FeedbackUploads ==
    {NoFile, [name |-> "f.png", ext |-> <<".", "png">>, mime |-> <<"image/", "png">>]}

NextFeedback ==
    \/ Route_PostAppointment({AdminToken}, BookedBodies)
    \/ Route_DeleteAppointment
    \/ Route_PostFeedback({AdminToken}, FeedbackBodies, FeedbackUploads)
    \/ Route_PostFeedbackResume
    \/ Route_GetFeedback

SpecFeedback == Init /\ [][NextFeedback]_vars

\* the bodies that differ from this one at most in serviceId and therapistId
SameButReferences(body) ==
    LET own == {"serviceId", "therapistId"}
    IN {[f \in (DOMAIN body \ own) \cup S |->
            IF f \in own THEN v ELSE body[f]]
        : S \in SUBSET own, v \in Ids \cup {ClientId}}

\* C4: a feedback created with 201 is stored with the serviceId and the
\* therapistId of the appointment the handler read, and the same request
\* with any other (or no) serviceId and therapistId in its body would have
\* stored the same document.
FeedbackReferencesFromAppointment ==
    (res.op = "createFeedback" /\ res.sent.status = 201)
      => LET f == res.sent.doc
         IN /\ f \in feedbacks
            /\ f.appointmentId = res.read._id
            /\ f.serviceId = res.read.serviceId
            /\ f.therapistId = res.read.therapistId
            /\ \A b \in SameButReferences(res.body) :
                  FeedbackDoc(f._id, res.user, b, res.file, res.read) = f

\* C4 witness: a feedback whose body named another service and therapist
\* was created for an appointment
ClientReferencesIgnored ==
    /\ res.op = "createFeedback" /\ res.sent.status = 201
    /\ Has(res.body, "serviceId") /\ res.body.serviceId # res.read.serviceId
    /\ Has(res.body, "therapistId") /\ res.body.therapistId # res.read.therapistId
    /\ res.sent.doc.serviceId = res.read.serviceId

(***************************************************************************)
(* SpecTransaction: the transaction routes                                 *)
(***************************************************************************)
TransactionBodies ==
    LET full == [customerId |-> 1, appointmentId |-> 1,
                 paymentMethod |-> "Cash", status |-> "pending"]
    IN {full, [full EXCEPT !.status = "completed"],
        [full EXCEPT !.status = "refunded"], Without(full, "paymentMethod")}

NextTransaction ==
    \/ Route_PostTransaction({NoToken, AdminToken}, TransactionBodies)
    \/ Route_GetTransaction
    \/ Route_DeleteTransaction

SpecTransaction == Init /\ [][NextTransaction]_vars

\* C9: deleteTransaction on a stored transaction removes that transaction
\* and nothing else and answers 200 with the confirmation message, after
\* which the id is no longer stored; deleteTransaction on an id that is not
\* stored (as is every id already deleted, so also when it follows the
\* successful delete of the same id) answers 404 and changes nothing.
DeleteTransactionOnce ==
    [][res'.op = "deleteTransaction" /\ res'.id \in Ids
         => LET t == Stored(transactions, res'.id)
            IN IF t # NoDoc
               THEN /\ transactions' = transactions \ {t}
                    /\ Stored(transactions', res'.id) = NoDoc
                    /\ res'.sent = Json(200, "message", "Transaction deleted successfully", NoDoc)
                    /\ res'.attempts = <<200>>
                    /\ nextId' = nextId
               ELSE /\ res'.sent.status = 404
                    /\ res'.attempts = <<404>>
                    /\ UNCHANGED stores]_vars

\* C9 witness: the delete of a stored transaction has just succeeded while
\* another transaction stays stored
TransactionDeletedSeen ==
    /\ res.op = "deleteTransaction" /\ res.sent.status = 200
    /\ Stored(transactions, res.id) = NoDoc
    /\ transactions # {}

(***************************************************************************)
(* SpecCatalog: the blog, scoreband, therapist and user quiz routes        *)
(***************************************************************************)
BlogBodies ==
    LET full == [staffId |-> 1, title |-> "t", status |-> "draft",
                 content |-> <<[content |-> "c", image |-> "i",
                                imageDescription |-> "d"]>>]
    IN {full, Without(full, "content"), Without(full, "title")}

ScorebandBodies ==
    LET full == [roadmapId |-> 1, minPoint |-> 1, maxPoint |-> 10,
                 typeOfSkin |-> "oily", skinExplanation |-> "e"]
    IN {full, Without(full, "roadmapId"), Without(full, "typeOfSkin")}

TherapistBodies ==
    LET full == [accountId |-> 1, specialization |-> <<1>>,
                 certification |-> <<[name |-> "n", issuedBy |-> "b",
                                      issuedDate |-> "2020-01-01"]>>,
                 experience |-> "5y"]
    IN {full, Without(full, "experience")}

UserQuizBodies ==
    LET full == [accountId |-> 1, scoreBandId |-> 1,
                 result |-> <<[questionId |-> 1, answerId |-> <<1>>]>>,
                 totalPoint |-> 7]
    IN {full, Without(full, "result")}

NextCatalog ==
    \/ Route_PostBlog(BlogBodies)
    \/ Route_GetBlog
    \/ Route_PostScoreband(ScorebandBodies)
    \/ Route_GetScoreband
    \/ Route_PostTherapist(TherapistBodies)
    \/ Route_GetTherapist
    \/ Route_PostUserQuiz(UserQuizBodies)
    \/ Route_GetUserQuiz

SpecCatalog == Init /\ [][NextCatalog]_vars

\* the collection a handler works on
CollectionOf(op) ==
    CASE op \in {"getBlog", "createBlog"} -> blogs
      [] op \in {"getScoreband", "createScoreband"} -> scorebands
      [] op \in {"getTherapist", "createTherapist"} -> therapists
      [] op \in {"getUserQuiz", "createUserQuiz"} -> userQuizzes
      [] OTHER -> {}

GetOps == {"getBlog", "getScoreband", "getTherapist", "getUserQuiz"}

\* C6: a get-by-id for a well-formed id answers 200 with the stored
\* document when the collection holds it, and otherwise 404 with a JSON
\* message, and in both cases makes no other attempt to respond.
GetByIdAnswersOnce ==
    (res.op \in GetOps /\ res.id \in Ids)
      => LET d == Stored(CollectionOf(res.op), res.id)
         IN IF d # NoDoc
            THEN res.sent = Json(200, "doc", "", d) /\ res.attempts = <<200>>
            ELSE /\ res.sent.status = 404 /\ res.sent.key = "message"
                 /\ res.attempts = <<404>>

\* the fields each create endpoint documents as required
DocumentedRequired(op) ==
    CASE op = "createBlog" -> {"staffId", "title", "status", "content"}
      [] op = "createScoreband" ->
           {"roadmapId", "minPoint", "maxPoint", "typeOfSkin", "skinExplanation"}
      [] op = "createTherapist" ->
           {"accountId", "specialization", "certification", "experience"}
      [] op = "createUserQuiz" ->
           {"accountId", "scoreBandId", "result", "totalPoint"}
      [] OTHER -> {}

\* C7: a create request whose body omits a field documented as required is
\* answered 400 and leaves every collection unchanged.
CreateRejectsMissingField ==
    [][(\E f \in DocumentedRequired(res'.op) : ~Has(res'.body, f))
         => res'.sent.status = 400 /\ UNCHANGED stores]_vars

GetOf(op) ==
    CASE op = "createBlog" -> "getBlog"
      [] op = "createScoreband" -> "getScoreband"
      [] op = "createTherapist" -> "getTherapist"
      [] op = "createUserQuiz" -> "getUserQuiz"
      [] OTHER -> "none"

\* C10: when a create has just answered with the new document and the next
\* request reads that entity by the returned id, the read answers 200 with
\* a document equal to the one created.
CreateThenGetRoundTrip ==
    [][(/\ res.sent.status \in {200, 201} /\ res.sent.key = "doc"
        /\ GetOf(res.op) # "none"
        /\ res'.op = GetOf(res.op)
        /\ res'.id = res.sent.doc._id)
         => res'.sent = Json(200, "doc", "", res.sent.doc)]_vars

(***************************************************************************)
(* SpecAccount: the account routes                                         *)
(***************************************************************************)
NewAccountBody ==
    [username |-> "a", password |-> "p", email |-> "a@b.com", dob |-> "2000-01-01"]

\* a new account's body as it is, with isActive false, with a role, without
\* dob, and with the administrator's username
AccountBodies ==
    {NewAccountBody,
     [username |-> "a", password |-> "p", email |-> "a@b.com",
      dob |-> "2000-01-01", isActive |-> FALSE],
     [username |-> "a", password |-> "p", email |-> "a@b.com",
      dob |-> "2000-01-01", role |-> "Staff"],
     Without(NewAccountBody, "dob"),
     [NewAccountBody EXCEPT !.username = "admin"]}

AccountPatches == {[password |-> "q"], [username |-> "a"]}

NextAccount ==
    \/ Route_PostAccount(AccountBodies)
    \/ Route_GetAccount({AdminToken})
    \/ Route_PutAccount({AdminToken}, AccountPatches)
    \/ Route_DeleteAccount({AdminToken})
    \/ getAllAccounts("GET /account", Direct)

SpecAccount == Init /\ [][NextAccount]_vars

\* the body has the four fields createAccount needs and no role
NewAccountRequest(body) ==
    /\ \A f \in {"username", "password", "email", "dob"} : ~NotStr(body, f)
    /\ ~Has(body, "role")

\* the account createAccount would store with this body does not collide
\* with a stored account on the unique username and email indexes
FreshAccount(body) ==
    \A e \in accounts : e.username # body.username /\ e.email # body.email

BlogPatches == {[title |-> "u"]}

ScorebandPatches == {[maxPoint |-> 20]}

NextMaintain ==
    \/ Route_PostBlog(BlogBodies)
    \/ getAllBlog("GET /blog", Direct)
    \/ \E id \in ParamIds, body \in BlogPatches :
           updateBlog("PUT /blog/:id", Direct, id, body)
    \/ \E id \in ParamIds : deleteBlog("DELETE /blog/:id", Direct, id)
    \/ Route_PostScoreband(ScorebandBodies)
    \/ getAllScoreband("GET /scoreband", Direct)
    \/ \E id \in ParamIds, body \in ScorebandPatches :
           updateScoreband("PUT /scoreband/:id", Direct, id, body)
    \/ \E id \in ParamIds : deleteScoreband("DELETE /scoreband/:id", Direct, id)
    \/ Route_PostAccount({NewAccountBody})
    \/ getAllAccounts("GET /account", Direct)
    \/ Route_PutAccount({AdminToken}, AccountPatches)
    \/ Route_DeleteAccount({AdminToken, NoToken})

SpecMaintain == Init /\ [][NextMaintain]_vars

\* C12: a request that reaches its controller handler gets exactly one
\* response: either the handler writes once and forwards no error, or it
\* writes nothing and forwards exactly one error, which the error responder
\* answers; no further attempt to respond is made and none throws.
ExactlyOneResponse ==
    res.handler
      => /\ Len(res.forwarded) <= 1
         /\ Len(res.attempts) = 1
         /\ ~res.unhandled

\* the collection an update or delete handler works on
Maintained(op) ==
    CASE op \in {"updateAccount", "deleteAccount"} -> accounts
      [] op \in {"updateBlog", "deleteBlog"} -> blogs
      [] op \in {"updateScoreband", "deleteScoreband"} -> scorebands
      [] OTHER -> {}

\* the same collection after the step
MaintainedNext(op) ==
    CASE op \in {"updateAccount", "deleteAccount"} -> accounts'
      [] op \in {"updateBlog", "deleteBlog"} -> blogs'
      [] op \in {"updateScoreband", "deleteScoreband"} -> scorebands'
      [] OTHER -> {}

\* C13: an update request for a well-formed id that the collection holds
\* applies the patch, so that the collection then holds the patched
\* document, and answers 200 with that document as it is after the update;
\* for a well-formed id that the collection does not hold it answers 404
\* and changes no collection.
UpdateAnswersUpdatedDocument ==
    [][(/\ res'.op \in {"updateAccount", "updateBlog", "updateScoreband"}
        /\ res'.handler
        /\ res'.id \in Ids)
         => LET old == Stored(Maintained(res'.op), res'.id)
            IN IF old # NoDoc
               THEN /\ res'.sent = Json(200, "doc", "", ApplyPatch(old, res'.body))
                    /\ Stored(MaintainedNext(res'.op), res'.id) = ApplyPatch(old, res'.body)
               ELSE /\ res'.sent.status = 404
                    /\ stores' = stores]_vars

\* C14: a delete request for a well-formed id that the collection holds
\* removes that document and answers 200; for a well-formed id that the
\* collection does not hold it answers 404.
DeleteAnswersConfirmationOr404 ==
    [][(/\ res'.op \in {"deleteAccount", "deleteBlog", "deleteScoreband"}
        /\ res'.handler
        /\ res'.id \in Ids)
         => LET old == Stored(Maintained(res'.op), res'.id)
            IN IF old # NoDoc
               THEN /\ res'.sent.status = 200
                    /\ Stored(MaintainedNext(res'.op), res'.id) = NoDoc
               ELSE res'.sent.status = 404]_vars

\* the collection a list handler reads
Listed(op) ==
    CASE op = "getAllAccounts" -> accounts
      [] op = "getAllScoreband" -> scorebands
      [] OTHER -> {}

\* C15: a list request is answered 404 when the collection is empty and
\* 200 with all the stored documents when it is not (here for the Account
\* and Scoreband list handlers).
ListAnswers404WhenEmpty ==
    [][(res'.op \in {"getAllAccounts", "getAllScoreband"} /\ res'.handler)
         => IF Listed(res'.op) = {}
            THEN res'.sent.status = 404
            ELSE res'.sent = Json(200, "docs", "", ListDoc(Listed(res'.op)))]_vars

(***************************************************************************)
(* Sub-specification: the documents that refer to one another.             *)
(* Appointments are booked and deleted, feedback is given on them,         *)
(* therapists are created, updated and deleted, and the appointments of a  *)
(* customer and of an account's therapist are listed                       *)
(***************************************************************************)
TherapistPatches == {[experience |-> "6y"]}

NextReferences ==
    \/ Route_PostAppointment({AdminToken}, BookedBodies)
    \/ Route_DeleteAppointment
    \/ Route_PostFeedback({AdminToken}, FeedbackBodies, {NoFile})
    \/ Route_PostFeedbackResume
    \/ Route_PostTherapist(TherapistBodies)
    \/ \E id \in Ids, body \in TherapistPatches :
           updateTherapist("PUT /therapist/:therapistId", Direct,
                           [therapistId |-> id], body)
    \/ \E id \in Ids :
           deleteTherapist("DELETE /therapist/:therapistId", Direct,
                           [therapistId |-> id])
    \/ \E id \in ParamIds :
           getAppointmentsByCustomerId("GET /appointment/customer/:customerId",
                                       Direct, id)
    \/ \E id \in ParamIds :
           getAppointmentsByAccountId("GET /appointment/account/:accountId",
                                      Direct, id)

SpecReferences == Init /\ [][NextReferences]_vars

\* C16: getAppointmentsByCustomerId answers 404 when no stored appointment
\* has the requested customerId, and otherwise 200 with exactly the
\* appointments of that customer.
CustomerAppointmentsOr404 ==
    [][(res'.op = "getAppointmentsByCustomerId" /\ res'.id \in Ids)
         => LET mine == {a \in appointments : a.customerId = res'.id}
            IN IF mine = {}
               THEN res'.sent.status = 404
               ELSE res'.sent = Json(200, "docs", "", ListDoc(mine))]_vars

\* C19: every reference a stored document holds to a therapist, an account
\* or an appointment is the _id of a document of that collection: an
\* appointment's therapistId and customerId, a feedback's appointmentId and
\* therapistId, a therapist's accountId.
ReferencesResolve ==
    /\ \A a \in appointments :
          Find(therapists, a.therapistId) # {} /\ Find(accounts, a.customerId) # {}
    /\ \A f \in feedbacks :
          Find(appointments, f.appointmentId) # {} /\ Find(therapists, f.therapistId) # {}
    /\ \A t \in therapists : Find(accounts, t.accountId) # {}

\* C20: no two stored therapists have the same accountId.
OneTherapistPerAccount ==
    \A t1 \in therapists, t2 \in therapists :
        t1.accountId = t2.accountId => t1 = t2

\* C17: every error response a client receives (status 400 or above),
\* whether a middleware, a handler or the error responder wrote it, is a
\* JSON object with a message field, and its text is never the text of an
\* internal exception.
ErrorBodiesCarryOnlyMessage ==
    res.sent.status >= 400
      => res.sent.key = "message" /\ res.sent.text # CastErrorText

(***************************************************************************)
(* Sub-specification: update requests in flight at once.  A transaction    *)
(* and a feedback are created, and updates of them are issued and applied  *)
(* by the store in any order                                               *)
(***************************************************************************)
TransactionPatches == {[status |-> "completed"], [paymentMethod |-> "Credit Card"]}

FeedbackPatches == {[rating |-> 1], [comment |-> "late"]}

\* the ids of the first two documents created after the administrator's
\* account
UpdatedIds == {2, 3}

NextLastWriter ==
    \/ Route_PostTransaction({AdminToken},
                             {[customerId |-> 1, appointmentId |-> 1,
                               paymentMethod |-> "Cash", status |-> "pending"]})
    \/ \E id \in UpdatedIds, body \in TransactionPatches :
           updateTransaction("PUT /transaction/:transactionId", Direct, id, body)
    \/ \E p \in pending : updateTransactionWrite(p)
    \/ Route_PostAppointment({AdminToken}, {FullAppointmentBody})
    \/ Route_PostFeedback({AdminToken},
                          {[appointmentId |-> 2, rating |-> 5, comment |-> "ok"]},
                          {NoFile})
    \/ Route_PostFeedbackResume
    \/ \E id \in UpdatedIds, body \in FeedbackPatches :
           updateFeedback("PUT /feedback/:id", Direct, id, body)
    \/ \E p \in pending : updateFeedbackWrite(p)

SpecLastWriter == Init /\ [][NextLastWriter]_vars

\* the collection an update in flight is applied to
Updated(op) == IF op = "updateTransaction" THEN transactions ELSE feedbacks

\* the same collection after the step
UpdatedNext(op) == IF op = "updateTransaction" THEN transactions' ELSE feedbacks'

\* C18: when the store applies an update in flight to a stored document,
\* whatever other updates of the document were applied since the request
\* was issued or are still in flight, the request is answered 200, each
\* field its body names takes the body's value and every other field keeps
\* the value it had: a field holds the value of the last applied update
\* that set it, and no update is refused because of another.
LastWriterWins ==
    [][\A p \in pending :
          (/\ p.op \in {"updateTransaction", "updateFeedback"}
           /\ p \notin pending'
           /\ Stored(Updated(p.op), p.id) # NoDoc)
            => LET old == Stored(Updated(p.op), p.id)
                   new == Stored(UpdatedNext(p.op), p.id)
               IN /\ res'.op = p.op /\ res'.id = p.id /\ res'.body = p.body
                  /\ res'.sent.status = 200
                  /\ res'.sent.doc = new
                  /\ \A f \in DOMAIN old :
                        new[f] = IF f \in DOMAIN p.body THEN p.body[f] ELSE old[f]]_vars

\* C18 witness: an update was answered 200 after another update was applied
\* to the same document while it was in flight, changing a field it does
\* not name: the stored document holds both updates' values.
ConcurrentUpdatesCombined ==
    /\ res.op \in {"updateTransaction", "updateFeedback"}
    /\ res.sent.status = 200
    /\ res.read # NoDoc
    /\ \E f \in DOMAIN res.body :
          res.sent.doc[f] = res.body[f] /\ res.read[f] # res.body[f]
    /\ \E g \in DOMAIN res.read \ DOMAIN res.body :
          res.sent.doc[g] # res.read[g]
    /\ res.sent.doc \in transactions \cup feedbacks

(***************************************************************************)
(* Sub-specification: the shift routes, as the administrator               *)
(***************************************************************************)
ShiftBodies ==
    {[slotsId |-> 1, appointmentId |-> 1, therapistId |-> 1, date |-> d] :
        d \in {"2025-03-01", "2025-03-02"}}

ShiftPatches == {[date |-> "2025-03-01"], [isAvailable |-> FALSE]}

NextShift ==
    \/ Route_PostShift({AdminToken}, ShiftBodies)
    \/ Route_PutShift({AdminToken}, ShiftPatches)
    \/ Route_DeleteShift({AdminToken})

SpecShift == Init /\ [][NextShift]_vars

\* C21: no two stored shifts have the same therapistId, date and slotsId.
NoDoubleBookedShift ==
    \A s1 \in shifts, s2 \in shifts :
        (/\ s1.therapistId = s2.therapistId
         /\ s1.date = s2.date
         /\ s1.slotsId = s2.slotsId) => s1 = s2

(***************************************************************************)
(* Sub-specification: the status of a transaction.  Transactions are       *)
(* created, updated and deleted with statuses inside and outside the fixed *)
(* set                                                                     *)
(***************************************************************************)
StatusPatches == {[status |-> "completed"], [status |-> "refunded"]}

NextStatus ==
    \/ Route_PostTransaction({AdminToken}, TransactionBodies)
    \/ \E id \in UpdatedIds, body \in StatusPatches :
           updateTransaction("PUT /transaction/:transactionId", Direct, id, body)
    \/ \E p \in pending : updateTransactionWrite(p)
    \/ Route_DeleteTransaction

SpecStatus == Init /\ [][NextStatus]_vars

\* C22: after every request every stored transaction has a status in
\* {pending, completed, failed}, and a create request, or an update
\* request for a stored transaction, whose body carries any other status is
\* answered 400 and leaves the transactions as they were.
TransactionStatusInFixedSet ==
    [][/\ \A t \in transactions' : t.status \in validStatuses
       /\ (/\ \/ res'.op = "createTransaction"
              \/ /\ res'.op = "updateTransaction"
                 /\ Stored(transactions, res'.id) # NoDoc
           /\ res'.handler
           /\ res' # res
           /\ Has(res'.body, "status")
           /\ res'.body.status \notin validStatuses)
            => res'.sent.status = 400 /\ transactions' = transactions]_vars

(***************************************************************************)
(* Sub-specification: the upload middleware in front of createFeedback.    *)
(* An appointment is booked and feedback is posted on it with files of     *)
(* several names and content types                                         *)
(***************************************************************************)
\* f.png and F.PNG as image/png, a.pdf as application/pdf, a.png as
\* text/plain, a.pngx as image/png, a.png as application/x-png-dump
Uploads ==
    {NoFile,
     [name |-> "f.png", ext |-> <<".", "png">>, mime |-> <<"image/", "png">>],
     [name |-> "F.PNG", ext |-> <<".", "PNG">>, mime |-> <<"image/", "png">>],
     [name |-> "a.pdf", ext |-> <<".", "pdf">>, mime |-> <<"application/", "pdf">>],
     [name |-> "a.png", ext |-> <<".", "png">>, mime |-> <<"text/", "plain">>],
     [name |-> "a.pngx", ext |-> <<".", "png", "x">>, mime |-> <<"image/", "png">>],
     [name |-> "a.png", ext |-> <<".", "png">>,
      mime |-> <<"application/x-", "png", "-dump">>]}

NextUpload ==
    \/ Route_PostAppointment({AdminToken}, {FullAppointmentBody})
    \/ Route_PostFeedback({AdminToken},
                          {[appointmentId |-> 2, rating |-> 5, comment |-> "ok"],
                           [appointmentId |-> 2, comment |-> "ok"]},
                          Uploads)
    \/ Route_PostFeedbackResume
    \/ Route_GetFeedback

SpecUpload == Init /\ [][NextUpload]_vars

\* the extension is .jpeg, .jpg or .png in any case and the content type is
\* image/jpeg, image/jpg or image/png
AllowedImage(file) ==
    /\ toLowerCase(file.ext) \in {<<".", t>> : t \in ImageTypes}
    /\ file.mime \in {<<"image/", t>> : t \in ImageTypes}

\* C23: when the upload middleware has run on a request that carries a
\* file, it stores the file and lets the request proceed only if the
\* file's extension and its content type are both of jpeg, jpg, png;
\* otherwise it forwards one error, stores no file and the controller
\* handler is not invoked.
UploadOnlyAllowedImages ==
    (/\ res.upload # NoFile
     /\ \E i \in 1..Len(res.trace) : res.trace[i].mw = "uploadMiddleware")
      => IF AllowedImage(res.upload)
         THEN res.file = res.upload /\ res.handler
         ELSE res.file = NoFile /\ ~res.handler /\ Len(res.forwarded) = 1

(***************************************************************************)
(* Sub-specification: create requests whose numeric fields are zero or     *)
(* positive                                                                *)
(***************************************************************************)
Points == {0, 7}

PointBodies ==
    {[roadmapId |-> 1, minPoint |-> n, maxPoint |-> 10,
      typeOfSkin |-> "oily", skinExplanation |-> "e"] : n \in Points}

QuizBodies ==
    {[accountId |-> 1, scoreBandId |-> 1,
      result |-> <<[questionId |-> 1, answerId |-> <<1>>]>>,
      totalPoint |-> n] : n \in Points}

RatingBodies ==
    {[appointmentId |-> 2, rating |-> n, comment |-> "ok"] : n \in Points}

NextZero ==
    \/ Route_PostScoreband(PointBodies)
    \/ Route_GetScoreband
    \/ Route_PostUserQuiz(QuizBodies)
    \/ Route_PostAppointment({AdminToken}, {FullAppointmentBody})
    \/ Route_PostFeedback({AdminToken}, RatingBodies, {NoFile})
    \/ Route_PostFeedbackResume

SpecZero == Init /\ [][NextZero]_vars

\* the fields a create handler tests for presence
Tested(op) ==
    CASE op = "createScoreband" ->
           {"roadmapId", "minPoint", "maxPoint", "typeOfSkin", "skinExplanation"}
      [] op = "createUserQuiz" -> {"accountId", "scoreBandId", "result", "totalPoint"}
      [] op = "createFeedback" -> {"appointmentId", "rating"}
      [] OTHER -> {}

\* C24: a create request whose body holds every field the handler tests,
\* a numeric one possibly with the value 0, is not answered 400.
ZeroCountsAsPresent ==
    (/\ res.op \in {"createScoreband", "createUserQuiz", "createFeedback"}
     /\ res.handler
     /\ \A f \in Tested(res.op) : Has(res.body, f))
      => res.sent.status # 400

\* the gates that read the identity auth attaches
AuthorizationGates == {"isAdmin", "isStaffOrAdmin", "checkActive"}

\* C25: in the chain of every route each authorization gate comes after
\* auth, and whenever an authorization gate has run on a request an
\* identity was attached and the gate did not answer 500.
GatesRunAfterAuth ==
    /\ \A r \in GatedRoutes :
          \A i \in 1..Len(Chain(r)) :
              Chain(r)[i] \in AuthorizationGates
                => \E j \in 1..(i - 1) : Chain(r)[j] = "auth"
    /\ \A i \in 1..Len(res.trace) :
          res.trace[i].mw \in AuthorizationGates
            => /\ res.trace[i].user # NoUser
               /\ res.trace[i].sent.status # 500

\* C25 witness: isAdmin has run on a DELETE /account/:id request that auth
\* let through with an identity attached.
AdminGateRanWithIdentity ==
    /\ res.route = "DELETE /account/:id"
    /\ Len(res.trace) = 2
    /\ res.trace[1].mw = "auth"
    /\ res.trace[2].mw = "isAdmin"
    /\ res.trace[2].user # NoUser

(***************************************************************************)
(* Sub-specification: whose feedback it is.  Feedback is posted through    *)
(* the route, with and without a cookie, with bodies that name an account  *)
(* of their own, and createFeedback is also invoked with no middleware in  *)
(* front of it, as a router that mounts it without auth would              *)
(***************************************************************************)
OwnerBodies ==
    {[appointmentId |-> 2, rating |-> 5, comment |-> "ok"],
     [appointmentId |-> 2, rating |-> 5, comment |-> "ok", accountId |-> ClientId],
     [appointmentId |-> 2, comment |-> "ok", accountId |-> ClientId]}

NextOwner ==
    \/ Route_PostAppointment({AdminToken}, {FullAppointmentBody})
    \/ Route_PostFeedback({AdminToken, NoToken}, OwnerBodies, {NoFile})
    \/ \E body \in OwnerBodies : createFeedback("POST /feedback", Direct, body)
    \/ Route_PostFeedbackResume
    \/ Route_GetFeedback

SpecOwner == Init /\ [][NextOwner]_vars

WorkflowBodies ==
    {FullAppointmentBody, [FullAppointmentBody EXCEPT !.status = "Done"]}

WorkflowPatches ==
    {[status |-> "Completed"], [status |-> "Scheduled"], [status |-> "Done"]}

NextWorkflow ==
    \/ Route_PostAppointment({AdminToken}, WorkflowBodies)
    \/ Route_PutAppointment(WorkflowPatches, {NoFiles})
    \/ Route_PutAppointmentResume
    \/ \E id \in Ids, body \in WorkflowPatches :
           updateAppointmentEarly("PUT /appointment/:id (early)", Direct, id, body)
    \/ Route_GetAppointment

SpecWorkflow == Init /\ [][NextWorkflow]_vars

\* C27: after every request every stored appointment has a status of the
\* enumeration, and an update of a stored appointment that asks for a
\* status of the enumeration is answered 200 and stores that status,
\* whatever the status was.
AppointmentStatusInEnum ==
    [][/\ \A a \in appointments' : a.status \in AppointmentStatuses
       /\ (/\ res'.op \in {"updateAppointment", "updateAppointmentEarly"}
           /\ res' # res
           /\ Stored(appointments, res'.id) # NoDoc
           /\ Has(res'.body, "status")
           /\ res'.body.status \in AppointmentStatuses)
            => /\ res'.sent.status = 200
               /\ (Stored(appointments', res'.id)).status = res'.body.status]_vars

(***************************************************************************)
(* Sub-specification: appointment updates in flight together.  One         *)
(* appointment is booked; updates that upload a check-in image and updates *)
(* that upload none are received while others are suspended between their  *)
(* lookup and their write                                                  *)
(***************************************************************************)
RacePatches == {[notes |-> "n2"], [notes |-> "n3"]}

RaceFiles ==
    {NoFiles, [present |-> TRUE, checkInImage |-> "in.png", checkOutImage |-> ""]}

NextImageRace ==
    \/ Route_PostAppointment({AdminToken}, {FullAppointmentBody})
    \/ Route_PutAppointmentConcurrent(RacePatches, RaceFiles)
    \/ Route_PutAppointmentResume
    \/ Route_GetAppointment

SpecImageRace == Init /\ [][NextImageRace]_vars

\* C28: the write of an updateAppointment request that uploaded no check-in
\* image leaves the stored checkInImage as it is at that moment, so an
\* image uploaded by a request that ran between its lookup and its write
\* stays.
NoImageUpdateKeepsUploadedImage ==
    [][\A p \in pending :
          (/\ p.op = "updateAppointment" /\ p \notin pending'
           /\ ~Uploaded(p.files, "checkInImage")
           /\ Stored(appointments, p.id) # NoDoc)
            => (Stored(appointments', p.id)).checkInImage
                  = (Stored(appointments, p.id)).checkInImage]_vars

\* C29: when the write of an updateAppointment request is applied and the
\* appointment is not stored at that moment (a deleteAppointment removed it
\* after the lookup), the request is answered 404; a 200 carries the
\* updated appointment, never null.
UpdateOfDeleted404 ==
    [][\A p \in pending :
          (p.op = "updateAppointment" /\ p \notin pending')
            => /\ Stored(appointments, p.id) = NoDoc => res'.sent.status = 404
               /\ res'.sent.status = 200 => res'.sent.doc # NoDoc]_vars

(***************************************************************************)
(* Sub-specification: a feedback created while its appointment changes.    *)
(* Appointments are booked, updated and deleted while createFeedback is    *)
(* suspended between its lookup and its save                               *)
(***************************************************************************)
ReassignPatches == {[therapistId |-> 2, serviceId |-> 2]}

PlainFeedbackBodies ==
    {[appointmentId |-> a, rating |-> 5, comment |-> "ok"] : a \in Ids}

NextFeedbackRace ==
    \/ Route_PostAppointment({AdminToken}, {FullAppointmentBody})
    \/ Route_DeleteAppointment
    \/ Route_PutAppointmentConcurrent(ReassignPatches, {NoFiles})
    \/ Route_PutAppointmentResume
    \/ Route_PostFeedback({AdminToken}, PlainFeedbackBodies, {NoFile})
    \/ Route_PostFeedbackResume
    \/ Route_GetFeedback

SpecFeedbackRace == Init /\ [][NextFeedbackRace]_vars

\* C30: when createFeedback saves a Feedback, the appointment the Feedback
\* names is stored at that moment and the Feedback has that appointment's
\* serviceId and therapistId as they are stored at that moment.
FeedbackMatchesStoredAppointment ==
    [][\A f \in feedbacks' \ feedbacks :
          LET a == Stored(appointments, f.appointmentId)
          IN /\ a # NoDoc
             /\ f.serviceId = a.serviceId
             /\ f.therapistId = a.therapistId]_vars

====
